------------------------------- MODULE SignIn -------------------------------
(***************************************************************************)
(* The console's session: the API key and the summary every page hangs on  *)
(* (frontend hooks/useApiKey.tsx, hooks/useOverview.tsx), the pages that   *)
(* look at them (LoginPage, RequireAuth, AppHeader), and the rotation of   *)
(* the key (pages/SystemPage.tsx, control/key_rotation.go).                *)
(*                                                                         *)
(* One step is an event with the render and the effects it runs: a new key *)
(* asks for the summary, none clears it.  Keys are numbered as the server  *)
(* mints them.  The page a redirect returns to is left open.               *)
(***************************************************************************)
EXTENDS Naturals, FiniteSets

CONSTANTS
    MaxSummaries,  \* bound: requests for the summary
    MaxMinted,     \* bound: rotations, here and elsewhere
    None

SignInAssumption ==
    /\ MaxSummaries \in Nat /\ MaxMinted \in Nat
    /\ None \notin Nat /\ None # "other"

VARIABLES
    serverKey,     \* the key the server accepts
    session,       \* the tab: key and summary, the page, its form, its dialog with a secret
    summaries,     \* requests for the summary, with what the server made of them
    rotations,     \* requests to rotate; mounted: the page that asked is still there
    asked,         \* requests for the summary so far
    mixed,         \* history: what is shown was left by an answer for another key
    rotated        \* history: a rotation gave this tab its key, and nobody signed out or in since

signInVars == <<serverKey, session, summaries, rotations, asked, mixed, rotated>>

Console == {"home", "system"}

Summary(n, k, form) == [id |-> n, key |-> k, form |-> form, verdict |-> "none"]

-----------------------------------------------------------------------------
\* RequireAuth and LoginPage send each other what they do not want; with a summary
\* and no key neither wants it.
PagesFor(s) ==
    CASE s.key = None -> IF s.overview = None THEN {"login"} ELSE {"bouncing"}
      [] s.key # None /\ s.overview = None /\ s.error = "unauthorized" -> {"login"}
      [] s.key # None /\ s.overview # None /\ s.page \notin Console -> Console
      [] OTHER -> {s.page}

\* A page that is left forgets its form, its busy button and its dialog.
Render(s, gone) ==
    \E p \in PagesFor(s) :
        /\ session' = [s EXCEPT !.page = p, !.busy = @ /\ p = "login",
                                !.rotating = @ /\ p = "system" /\ session.page = "system",
                                !.secret = IF p = "system" /\ session.page = "system" THEN @ ELSE None]
        /\ rotations' = IF p = "system" THEN rotations \ gone
                        ELSE {[r EXCEPT !.mounted = FALSE] : r \in rotations \ gone}

\* setApiKey and signOut, with OverviewProvider's effect on a changed key.
WithKey(s, k) ==
    IF k = s.key THEN s
    ELSE IF k = None
    THEN [s EXCEPT !.key = None, !.overview = None, !.loading = FALSE, !.error = None]
    ELSE [s EXCEPT !.key = k, !.loading = TRUE]

Asks(s, k) == k \notin {s.key, None}

Ask(n, calls) == asked + n <= MaxSummaries /\ asked' = asked + n /\ summaries' = calls

-----------------------------------------------------------------------------
\* LoginPage's onSubmit: the typed key is stored and tried; the effect of a new key
\* tries it too.
Submit(k) ==
    /\ session.page = "login" /\ ~session.busy
    /\ LET extra == Asks(session, k)
       IN  /\ Ask(IF extra THEN 2 ELSE 1,
                  summaries \union {Summary(asked + 1, k, TRUE)}
                    \union (IF extra THEN {Summary(asked + 2, k, FALSE)} ELSE {}))
           /\ Render([WithKey(session, k) EXCEPT !.busy = TRUE, !.loading = TRUE], {})
    /\ rotated' = FALSE
    /\ UNCHANGED <<serverKey, mixed>>

\* The dialogs of a rotation cover the header.
Covered == session.rotating \/ session.secret # None

\* AppHeader's refresh, whose button waits while something loads.
Refresh ==
    /\ session.page \in Console /\ ~Covered /\ ~session.loading
    /\ Ask(1, summaries \union {Summary(asked + 1, session.key, FALSE)})
    /\ session' = [session EXCEPT !.loading = TRUE]
    /\ UNCHANGED <<serverKey, rotations, mixed, rotated>>

SignOut ==
    /\ session.page \in Console /\ ~Covered
    /\ Render([WithKey(session, None) EXCEPT !.page = "login"], {})
    /\ mixed' = FALSE /\ rotated' = FALSE
    /\ UNCHANGED <<serverKey, summaries, asked>>

\* By the sidebar or the browser's history, which no dialog covers.
Go(p) ==
    /\ session.page \in Console /\ p # session.page
    /\ Render([session EXCEPT !.page = p], {})
    /\ UNCHANGED <<serverKey, summaries, asked, mixed, rotated>>

CloseSecret ==
    /\ session.secret # None
    /\ session' = [session EXCEPT !.secret = None]
    /\ UNCHANGED <<serverKey, summaries, rotations, asked, mixed, rotated>>

\* rotateConsoleKey is sent with the stored key.
AskRotation ==
    /\ session.page = "system" /\ ~Covered
    /\ Cardinality(rotations) + serverKey < MaxMinted
    /\ session' = [session EXCEPT !.rotating = TRUE]
    /\ rotations' = rotations \union
          {[key |-> session.key, mounted |-> TRUE, verdict |-> "none", secret |-> None]}
    /\ UNCHANGED <<serverKey, summaries, asked, mixed, rotated>>

-----------------------------------------------------------------------------
\* The server looks at the key when it takes the request.
Judge(c) ==
    /\ c \in summaries /\ c.verdict = "none"
    /\ summaries' = (summaries \ {c}) \union
          {[c EXCEPT !.verdict = IF c.key = serverKey THEN "ok" ELSE "unauthorized"]}
    /\ UNCHANGED <<serverKey, session, rotations, asked, mixed, rotated>>

\* KeyRotation.Rotate: stored, published, then given to the workers; a worker that
\* does not come back fails a rotation whose key is already published.
Rotate(r) ==
    /\ r \in rotations /\ r.verdict = "none"
    /\ \/ /\ r.key = serverKey
          /\ serverKey' = serverKey + 1
          /\ \E v \in {"ok", "failed"} :
                rotations' = (rotations \ {r}) \union
                    {[r EXCEPT !.verdict = v, !.secret = IF v = "ok" THEN serverKey + 1 ELSE None]}
       \/ /\ UNCHANGED serverKey
          /\ rotations' = (rotations \ {r}) \union {[r EXCEPT !.verdict = "failed"]}
    /\ UNCHANGED <<session, summaries, asked, mixed, rotated>>

\* Another browser rotates.
RotateElsewhere ==
    /\ Cardinality(rotations) + serverKey < MaxMinted
    /\ serverKey' = serverKey + 1
    /\ rotated' = FALSE
    /\ UNCHANGED <<session, summaries, rotations, asked, mixed>>

-----------------------------------------------------------------------------
\* refresh is answered: whatever the key is by now, this is the summary. The form
\* that waits for it leaves its page.
SummaryAnswered(c) ==
    /\ c \in summaries /\ c.verdict = "ok"
    /\ \E p \in IF c.form THEN Console ELSE {session.page} :
          Render([session EXCEPT !.overview = c.key, !.error = None, !.loading = FALSE,
                                 !.page = p, !.busy = @ /\ ~c.form], {})
    /\ summaries' = summaries \ {c}
    /\ mixed' = (c.key # session.key)
    /\ UNCHANGED <<serverKey, asked, rotated>>

\* The key of the request was refused, and the session is signed out.
SummaryRefused(c) ==
    /\ c \in summaries /\ c.verdict = "unauthorized"
    /\ Render([WithKey([session EXCEPT !.overview = None, !.error = "unauthorized"], None)
                 EXCEPT !.loading = FALSE, !.busy = @ /\ ~c.form], {})
    /\ summaries' = summaries \ {c}
    /\ mixed' = FALSE
    /\ UNCHANGED <<serverKey, asked, rotated>>

\* Any other failure, on either side of the server.
SummaryFailed(c) ==
    /\ c \in summaries
    /\ Render([session EXCEPT !.overview = None, !.error = "other", !.loading = FALSE,
                              !.busy = @ /\ ~c.form], {})
    /\ summaries' = summaries \ {c}
    /\ mixed' = FALSE
    /\ UNCHANGED <<serverKey, asked, rotated>>

\* The new key is stored, also when the page that asked is gone.
RotationAnswered(r) ==
    /\ r \in rotations /\ r.verdict = "ok"
    /\ LET extra == Asks(session, r.secret)
       IN  /\ Ask(IF extra THEN 1 ELSE 0,
                  summaries \union (IF extra THEN {Summary(asked + 1, r.secret, FALSE)} ELSE {}))
           /\ Render([WithKey(session, r.secret) EXCEPT
                         !.secret = IF r.mounted THEN r.secret ELSE @,
                         !.rotating = @ /\ ~r.mounted], {r})
    /\ rotated' = (r.secret = serverKey)
    /\ UNCHANGED <<serverKey, mixed>>

RotationFailed(r) ==
    /\ r \in rotations /\ r.verdict = "failed"
    /\ session' = [session EXCEPT !.rotating = @ /\ ~r.mounted]
    /\ rotations' = rotations \ {r}
    /\ UNCHANGED <<serverKey, summaries, asked, mixed, rotated>>

-----------------------------------------------------------------------------
\* The tab opens with the key of an earlier visit, or none.
SignInInit ==
    /\ serverKey = 0
    /\ \E k \in {0, None}, p \in Console \union {"login"} :
          /\ session = [key |-> k, overview |-> None, loading |-> k # None, error |-> None,
                        page |-> IF k = None THEN "login" ELSE p,
                        busy |-> FALSE, rotating |-> FALSE, secret |-> None]
          /\ summaries = IF k = None THEN {} ELSE {Summary(1, k, FALSE)}
    /\ rotations = {}
    /\ asked = 1
    /\ mixed = FALSE /\ rotated = FALSE

SignInNext ==
    \/ \E k \in 0..serverKey : Submit(k)
    \/ Refresh \/ SignOut \/ CloseSecret \/ AskRotation \/ RotateElsewhere
    \/ \E p \in Console : Go(p)
    \/ \E c \in summaries : Judge(c) \/ SummaryAnswered(c) \/ SummaryRefused(c) \/ SummaryFailed(c)
    \/ \E r \in rotations : Rotate(r) \/ RotationAnswered(r) \/ RotationFailed(r)

SignInSpec == SignInInit /\ [][SignInNext]_signInVars

-----------------------------------------------------------------------------
\* With nothing under way the tab is signed out and at the login, or holds the summary
\* its key was given, or says that it could not be had; no form and no skeleton waits
\* on. What an answer for another key left behind is excepted until the next.
SettledSessionMatches ==
    summaries = {} =>
        /\ ~session.loading /\ ~session.busy
        /\ ~mixed => /\ session.key = None => session.page = "login" /\ session.overview = None
                     /\ session.key # None /\ session.error = None
                           => session.overview = session.key /\ session.page \in Console

\* consoleKeySecretHint (i18n/messages.ts) says of a finished rotation: "This browser
\* session is already updated."
RotationKeepsTheSession == rotated => session.key # None
=============================================================================
