------------------------------ MODULE KeyGrants ------------------------------
(***************************************************************************)
(* The API keys page (frontend pages/KeysPage.tsx, api/keys.ts) over the   *)
(* server's keys (internal/accounts/grants.go, api_keys.go). A grant is a  *)
(* region of a provider or, in keys of old, a whole provider, which covers *)
(* regions nobody had heard of when the key was made; a key without grants *)
(* may use everything.                                                     *)
(***************************************************************************)
EXTENDS Naturals, FiniteSets

CONSTANTS
    ApiKey,
    Regions,     \* every <<provider, region>> there will ever be
    MaxEdits,    \* bound: editors opened
    None

VARIABLES
    known,       \* the regions the server has by now
    options,     \* the regions the page learnt when it was opened, or {}
    stored,      \* the server's keys: [there, enabled, grants]
    rows,        \* the page's list; a row that is not there is not listed
    keyEditor,   \* the editor dialog, or None
    keyCalls,    \* requests under way
    busyKey,     \* the key whose switch and delete button are off, or None
    edits,       \* editors opened
    seen         \* history: the boxes ticked at a key's last save, None when they were as found

keysVars == <<known, options, stored, rows, keyEditor, keyCalls, busyKey, edits, seen>>

-----------------------------------------------------------------------------
(* Grants *)

Whole(region) == <<region[1], "">>
IsWhole(grant) == grant[2] = ""

Grants == Regions \cup {Whole(r) : r \in Regions}

\* The state of an editor: its boxes as they are, and as found.
KeyEditorType == [of : ApiKey, initial : SUBSET Grants, new : BOOLEAN,
                  selected : SUBSET Regions, untouched : BOOLEAN, busy : BOOLEAN]

\* A grant with a colon names its region (ParseProviderGrant), and no editor is None.
KeysAssumption == (\A r \in Regions : ~IsWhole(r)) /\ None \notin KeyEditorType

\* GrantsAllowed: nothing granted is everything allowed.
Allows(grants, region) == grants = {} \/ Whole(region) \in grants \/ region \in grants

\* NormalizeAPIKeyProviders: a provider's regions give way to the whole provider.
Normalize(grants) == {g \in grants : IsWhole(g) \/ Whole(g) \notin grants}

\* expandLegacyGrants: what the editor ticks for a key.
Expanded(grants) == {g \in grants : ~IsWhole(g)} \union {o \in options : Whole(o) \in grants}

Gone == [there |-> FALSE, enabled |-> FALSE, grants |-> {}]

-----------------------------------------------------------------------------
(* The page *)

\* fetchProviders and fetchAPIKeys on mount; a failure of the first leaves the
\* editor closed for good.
OpenKeysPage ==
    /\ options = {} /\ rows = [k \in ApiKey |-> Gone]
    /\ options' = known /\ rows' = stored
    /\ UNCHANGED <<known, stored, keyEditor, keyCalls, busyKey, edits, seen>>

\* The editor opens on a row, or empty for a new key.
OpenEditor(k) ==
    /\ keyEditor = None /\ options # {} /\ edits < MaxEdits
    /\ rows[k].there \/ ~stored[k].there
    /\ keyEditor' = [of |-> k, initial |-> rows[k].grants, new |-> ~rows[k].there, selected |-> Expanded(rows[k].grants),
                     untouched |-> TRUE, busy |-> FALSE]
    /\ edits' = edits + 1
    /\ UNCHANGED <<known, options, stored, rows, keyCalls, busyKey, seen>>

CloseEditor ==
    /\ keyEditor # None /\ ~keyEditor.busy
    /\ keyEditor' = None
    /\ UNCHANGED <<known, options, stored, rows, keyCalls, busyKey, edits, seen>>

\* Bug: a provider that was granted whole stays so until its box is ticked again.
ToggleTicking(o) ==
    /\ keyEditor # None /\ ~keyEditor.busy /\ o \in options
    /\ keyEditor' = [keyEditor EXCEPT !.untouched = @ /\ o \in keyEditor.selected,
                                      !.selected = IF o \in @ THEN @ \ {o} ELSE @ \union {o}]
    /\ UNCHANGED <<known, options, stored, rows, keyCalls, busyKey, edits, seen>>

Toggle(o) ==
    /\ keyEditor # None /\ ~keyEditor.busy /\ o \in options
    /\ keyEditor' = [keyEditor EXCEPT !.untouched = FALSE,
                                      !.selected = IF o \in @ THEN @ \ {o} ELSE @ \union {o}]
    /\ UNCHANGED <<known, options, stored, rows, keyCalls, busyKey, edits, seen>>

\* A request, and the row its answer will bring.
Call(kind, k) == [kind |-> kind, of |-> k, grants |-> {}, enabled |-> FALSE, seen |-> None, at |-> "sent", row |-> Gone]

\* submit: grants nobody touched go back as they came.
Submit ==
    LET e == keyEditor
    IN  /\ e # None /\ ~e.busy /\ options # {}
        /\ keyEditor' = [e EXCEPT !.busy = TRUE]
        /\ keyCalls' = keyCalls \union
               {[Call(IF e.new THEN "create" ELSE "save", e.of) EXCEPT
                   !.grants = IF e.untouched THEN e.initial ELSE e.selected,
                   !.seen = IF e.selected = Expanded(e.initial) THEN None ELSE e.selected]}
        /\ UNCHANGED <<known, options, stored, rows, busyKey, edits, seen>>

\* onToggle shows the new state at once; onDelete waits for its answer.
OnToggle(k) ==
    /\ rows[k].there /\ busyKey # k /\ busyKey' = k
    /\ rows' = [rows EXCEPT ![k].enabled = ~@]
    /\ keyCalls' = keyCalls \union {[Call("toggle", k) EXCEPT !.enabled = ~rows[k].enabled]}
    /\ UNCHANGED <<known, options, stored, keyEditor, edits, seen>>

OnDelete(k) ==
    /\ rows[k].there /\ busyKey # k /\ busyKey' = k
    /\ keyCalls' = keyCalls \union {Call("delete", k)}
    /\ UNCHANGED <<known, options, stored, rows, keyEditor, edits, seen>>

-----------------------------------------------------------------------------
(* The server, and its answers *)

\* A PATCH names what it changes (ApplyAPIKeyUpdate); one for a key that is
\* gone, or any other, may be refused.
Serve(c) ==
    LET k     == c.of
        taken == CASE c.kind = "create" -> [there |-> TRUE, enabled |-> TRUE, grants |-> Normalize(c.grants)]
                   [] c.kind = "save"   -> [stored[k] EXCEPT !.grants = Normalize(c.grants)]
                   [] c.kind = "toggle" -> [stored[k] EXCEPT !.enabled = c.enabled]
                   [] c.kind = "delete" -> Gone
    IN  /\ c \in keyCalls /\ c.at = "sent"
        /\ \/ /\ keyCalls' = (keyCalls \ {c}) \union {[c EXCEPT !.at = "refused"]}
              /\ UNCHANGED <<stored, seen>>
           \/ /\ c.kind = "create" \/ stored[k].there
              /\ stored' = [stored EXCEPT ![k] = taken]
              /\ keyCalls' = (keyCalls \ {c}) \union {[c EXCEPT !.at = "done", !.row = taken]}
              /\ seen' = IF c.kind = "toggle" THEN seen ELSE [seen EXCEPT ![k] = c.seen]
        /\ UNCHANGED <<known, options, rows, keyEditor, busyKey, edits>>

\* The answer writes its row; a refused save leaves the editor open, a refused
\* toggle reads the list again.
Answer(c) ==
    LET k  == c.of
        ok == c.at = "done"
    IN  /\ c \in keyCalls /\ c.at # "sent"
        /\ keyCalls' = keyCalls \ {c}
        /\ rows' = IF ok THEN IF c.kind = "create" \/ rows[k].there THEN [rows EXCEPT ![k] = c.row] ELSE rows
                   ELSE IF c.kind = "toggle" THEN stored ELSE rows
        /\ keyEditor' = IF c.kind \notin {"create", "save"} THEN keyEditor
                        ELSE IF ok THEN None ELSE [keyEditor EXCEPT !.busy = FALSE]
        /\ busyKey' = IF c.kind \in {"toggle", "delete"} THEN None ELSE busyKey
        /\ UNCHANGED <<known, options, stored, edits, seen>>

\* A release brings a region of a provider; the open page does not hear of it.
RegionAppears(r) ==
    /\ r \in Regions \ known
    /\ known' = known \union {r}
    /\ UNCHANGED <<options, stored, rows, keyEditor, keyCalls, busyKey, edits, seen>>

-----------------------------------------------------------------------------
\* Keys of old hold whole providers; a key the editor made holds regions.
KeysInit ==
    /\ \E r \in Regions : known = Regions \ {r}
    /\ stored \in [ApiKey -> {Gone} \union
           {[there |-> TRUE, enabled |-> TRUE, grants |-> g] :
               g \in {{Whole(r)} : r \in Regions} \union {{r} : r \in known}}]
    /\ options = {} /\ rows = [k \in ApiKey |-> Gone]
    /\ keyEditor = None /\ keyCalls = {} /\ busyKey = None /\ edits = 0
    /\ seen = [k \in ApiKey |-> None]

KeysNext ==
    \/ OpenKeysPage \/ CloseEditor \/ Submit
    \/ \E k \in ApiKey : OpenEditor(k) \/ OnToggle(k) \/ OnDelete(k)
    \/ \E o \in Regions : Toggle(o) \/ RegionAppears(o)
    \/ \E c \in keyCalls : Serve(c) \/ Answer(c)

KeysSpec == KeysInit /\ [][KeysNext]_keysVars

-----------------------------------------------------------------------------
\* "a bare grant can never silently keep a key broader than what the user sees
\* checked" (KeysPage.tsx): once boxes were changed, the key may use the ticked
\* regions and no other -- not even one a later release brings -- whatever was
\* toggled, refused or answered late meanwhile. With no box ticked it may use
\* everything, and the editor says so.
NeverBroaderThanSeen ==
    \A k \in ApiKey :
        seen[k] # None /\ seen[k] # {} => \A r \in Regions : Allows(stored[k].grants, r) => r \in seen[k]
=============================================================================
