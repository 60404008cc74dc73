--------------------------- MODULE AccountDialogs ---------------------------
(***************************************************************************)
(* The dialogs over the accounts (frontend EditAccountModal, ModelPicker,  *)
(* AccountModelsModal, AccountCheckinRecordsModal) and what the store      *)
(* makes of the models an account may serve.  A dialog's requests live on  *)
(* when it closes; a dialog opened again is a new one.                     *)
(***************************************************************************)
EXTENDS Naturals, FiniteSets

CONSTANTS
    Account,
    Model,
    MaxDialogs,   \* bound: dialogs opened
    MaxSaves,     \* bound: saves in flight
    None

DialogsAssumption == MaxDialogs \in Nat /\ MaxSaves \in Nat

VARIABLES
    enabled,      \* the store: account_enabled_models of each account
    editor,       \* EditAccountModal, or None
    sheet,        \* AccountModelsModal or AccountCheckinRecordsModal, or None
    saving,       \* the account the page is busy saving
    saves,        \* saves under way
    fetches,      \* reads under way: of catalogs and records
    opened,       \* dialogs opened so far
    wish          \* history: what the last save stored for each account asked for

dialogVars == <<enabled, editor, sheet, saving, saves, fetches, opened, wish>>

\* loadAccountRouting: restricted is having a list.
Restricted(a) == enabled[a] # {}

\* itemModelAllowed
Served(a) == IF Restricted(a) THEN enabled[a] ELSE Model

DialogsInit ==
    /\ enabled \in [Account -> {{}, Model}]
    /\ editor = None /\ sheet = None /\ saving = None
    /\ saves = {} /\ fetches = {}
    /\ opened = 0
    /\ wish = [a \in Account |-> None]

NoDialog == editor = None /\ sheet = None /\ opened < MaxDialogs
Fetch(n, a, refresh) == [dialog |-> n, id |-> a, refresh |-> refresh]
OnlyEditor == UNCHANGED <<enabled, sheet, saving, saves, fetches, opened, wish>>

-----------------------------------------------------------------------------
(* EditAccountModal: drafts are read from the row when it opens *)

OpenEditor(a) ==
    /\ NoDialog
    /\ opened' = opened + 1
    /\ editor' = [dialog |-> opened', id |-> a, of |-> a, restrict |-> Restricted(a),
                  picked |-> enabled[a], catalog |-> None, error |-> FALSE]
    /\ fetches' = fetches \cup {Fetch(opened', a, FALSE)}
    /\ UNCHANGED <<enabled, sheet, saving, saves, wish>>

\* Cancel, the close button and the backdrop, except while busy with this save.
CloseEditor ==
    /\ editor # None /\ saving # editor.id
    /\ editor' = None
    /\ OnlyEditor

Editing == editor # None /\ saving # editor.id

SwitchRestrict ==
    /\ Editing
    /\ editor' = [editor EXCEPT !.restrict = ~@]
    /\ OnlyEditor

\* ModelPicker: a row, or all the rows its search leaves, ticked or cleared; a model
\* gone from the catalog can only be taken out.
Pick ==
    /\ Editing /\ editor.restrict /\ editor.catalog # None
    /\ \E found \in SUBSET editor.catalog :
          \/ editor' = [editor EXCEPT !.picked = @ \cup found]
          \/ editor' = [editor EXCEPT !.picked = @ \ found]
    /\ OnlyEditor

Unpick ==
    /\ Editing /\ editor.restrict /\ editor.catalog # None
    /\ \E m \in editor.picked \ editor.catalog : editor' = [editor EXCEPT !.picked = @ \ {m}]
    /\ OnlyEditor

\* A draft that submit refuses: no name, limits out of range, no time of day.
SubmitInvalid ==
    /\ Editing
    /\ editor' = [editor EXCEPT !.error = TRUE]
    /\ OnlyEditor

\* submit, onSaveSettings: everything the drafts hold, always with set_model_routing.
Submit ==
    /\ Editing /\ Cardinality(saves) < MaxSaves
    /\ saves' = saves \cup {[dialog |-> editor.dialog, id |-> editor.id, of |-> editor.of, at |-> "sent",
                            models |-> IF editor.restrict THEN editor.picked ELSE {},
                            restrict |-> editor.restrict]}
    /\ saving' = editor.id
    /\ editor' = [editor EXCEPT !.error = FALSE]
    /\ UNCHANGED <<enabled, sheet, fetches, opened, wish>>

Advance(s, at) == saves' = (saves \ {s}) \cup {[s EXCEPT !.at = at]}

\* updateAccount and saveAccountRouting replace the stored list, or refuse.
Store(s) ==
    /\ s \in saves /\ s.at = "sent"
    /\ \/ /\ enabled' = [enabled EXCEPT ![s.id] = s.models]
          /\ wish' = [wish EXCEPT ![s.id] = [restrict |-> s.restrict, models |-> s.models]]
          /\ Advance(s, "stored") \/ Advance(s, "failed")   \* the reload may fail after it
       \/ /\ Advance(s, "failed")
          /\ UNCHANGED <<enabled, wish>>
    /\ UNCHANGED <<editor, sheet, saving, fetches, opened>>

\* onSaveSettings has ended: the page is busy no more, onClose closes the editor there
\* is, or the error shows in the editor that sent it.
Saved(s) ==
    /\ s \in saves /\ s.at # "sent"
    /\ saves' = saves \ {s}
    /\ saving' = None
    /\ editor' = IF s.at = "stored" THEN None
                 ELSE IF editor # None /\ editor.dialog = s.dialog THEN [editor EXCEPT !.error = TRUE]
                 ELSE editor
    /\ UNCHANGED <<enabled, sheet, fetches, opened, wish>>

\* Another operation of the page ends and clears its busy.
OtherEnds ==
    /\ saving # None
    /\ saving' = None
    /\ UNCHANGED <<enabled, editor, sheet, saves, fetches, opened, wish>>

-----------------------------------------------------------------------------
(* AccountModelsModal, AccountCheckinRecordsModal *)

OpenSheet(a, kind) ==
    /\ NoDialog
    /\ opened' = opened + 1
    /\ sheet' = [dialog |-> opened', kind |-> kind, id |-> a, shows |-> None, error |-> FALSE, loading |-> TRUE]
    /\ fetches' = fetches \cup {Fetch(opened', a, FALSE)}
    /\ UNCHANGED <<enabled, editor, saving, saves, wish>>

CloseSheet ==
    /\ sheet # None
    /\ sheet' = None
    /\ UNCHANGED <<enabled, editor, saving, saves, fetches, opened, wish>>

\* load(true), load(): of the models also while the first read runs.
RefreshSheet ==
    /\ sheet # None /\ sheet.kind = "records" => ~sheet.loading
    /\ sheet # None /\ Fetch(sheet.dialog, sheet.id, TRUE) \notin fetches
    /\ sheet' = [sheet EXCEPT !.loading = TRUE, !.error = FALSE]
    /\ fetches' = fetches \cup {Fetch(sheet.dialog, sheet.id, TRUE)}
    /\ UNCHANGED <<enabled, editor, saving, saves, opened, wish>>

\* Bug: an answer goes to the dialog there is.
MineAny(f, d) == d # None

\* An answer is for the dialog that asked (key, cancelled): a closed one drops it.
Mine(f, d) == d # None /\ d.dialog = f.dialog

FetchAnswered(f) ==
    /\ f \in fetches
    /\ fetches' = fetches \ {f}
    /\ \E ok \in BOOLEAN :
          /\ sheet' = IF Mine(f, sheet)
                      THEN [sheet EXCEPT !.shows = IF ok THEN f.id ELSE None, !.error = ~ok, !.loading = FALSE]
                      ELSE sheet
          /\ \E catalog \in {Model} \cup {Model \ {m} : m \in Model} :
                editor' = IF Mine(f, editor)
                          THEN [editor EXCEPT !.catalog = IF ok THEN catalog ELSE {}, !.of = f.id]
                          ELSE editor
    /\ UNCHANGED <<enabled, saving, saves, opened, wish>>

DialogsNext ==
    \/ \E a \in Account : OpenEditor(a) \/ \E kind \in {"models", "records"} : OpenSheet(a, kind)
    \/ CloseEditor \/ SwitchRestrict \/ Pick \/ Unpick \/ SubmitInvalid \/ Submit
    \/ \E s \in saves : Store(s) \/ Saved(s)
    \/ OtherEnds \/ CloseSheet \/ RefreshSheet
    \/ \E f \in fetches : FetchAnswered(f)

DialogsSpec == DialogsInit /\ [][DialogsNext]_dialogVars

-----------------------------------------------------------------------------
\* A dialog works on the account it was opened for, and so does a save it sends, also
\* when answers for dialogs closed before arrive; when its reads are answered it
\* shows their result or an error.
DialogsKeepTheirAccount ==
    /\ editor # None => editor.of = editor.id
    /\ \A s \in saves : s.of = s.id
    /\ sheet # None =>
          /\ sheet.shows \in {None, sheet.id}
          /\ (~\E f \in fetches : f.dialog = sheet.dialog) =>
                ~sheet.loading /\ (sheet.error \/ sheet.shows = sheet.id)

\* What internal/accounts/types.go:36 says: once the operator saved a list, the account
\* serves nothing else, and nothing if the list is empty.
RestrictedServesItsList ==
    \A a \in Account : wish[a] # None /\ wish[a].restrict => Served(a) \subseteq wish[a].models
=============================================================================
