----------------------------- MODULE BatchImport ----------------------------
(***************************************************************************)
(* Import of a credential file from the accounts page (frontend            *)
(* lib/accountImportDetect.ts, lib/workbuddyImport.ts,                     *)
(* BatchImportConfirmModal, AccountsPage): read, detect whose it is, show  *)
(* it for confirmation, import.  Several files can be read at once.        *)
(***************************************************************************)
EXTENDS Naturals, FiniteSets

CONSTANTS
    File,         \* the files an operator has, see FileAssumption
    MaxPicks,     \* bound: files picked
    None

\* hint: the provider its format names, "" without a format, "unknown" if none has it;
\* has: the fields of the bundle; domains: of its accounts, by their markers.
FileAssumption ==
    /\ MaxPicks \in Nat /\ None \notin {"cn", "global"}
    /\ File \subseteq [json : BOOLEAN, hint : STRING,
                       has : SUBSET {"list", "blob", "session", "token", "dca", "key", "org", "meta"},
                       domains : SUBSET {"cn", "global", "other"}]

VARIABLES
    dialog,       \* the confirm dialog: what it shows and the region chosen
    importing,    \* the import under way, or None
    reading,      \* files being read
    picks,        \* files picked so far
    chosen,       \* history: the operator set the region of the file shown
    imports       \* history: what was sent

importVars == <<dialog, importing, reading, picks, chosen, imports>>

Region == {"cn", "global"}

-----------------------------------------------------------------------------
(* Detection *)

\* detectByShape: the first shape that fits.  A Meta bundle whose token is an access
\* token has fit WorkBuddy's shape before.
ByShape(f) ==
    IF "list" \in f.has THEN "workbuddy"
    ELSE IF "blob" \in f.has THEN "qoder"
    ELSE IF "session" \in f.has THEN "devin"
    ELSE IF "token" \in f.has THEN "workbuddy"
    ELSE IF "dca" \in f.has THEN "meta"
    ELSE IF "key" \notin f.has THEN None
    ELSE IF "org" \in f.has THEN "zhipu" ELSE IF "meta" \in f.has THEN "meta" ELSE "command"

Known == {"workbuddy", "qoder", "trae", "devin", "command", "codex", "zhipu", "qwenwork", "meta"}

\* detectImportBundle: the provider the format names, or the shape's.
ProviderOf(f) == IF f.hint \in Known THEN f.hint ELSE ByShape(f)

\* detectWorkbuddyRegion
RegionOf(f) ==
    IF {"cn", "global"} \subseteq f.domains THEN [region |-> None, ambiguous |-> TRUE]
    ELSE IF "cn" \in f.domains THEN [region |-> "cn", ambiguous |-> FALSE]
    ELSE IF "global" \in f.domains THEN [region |-> "global", ambiguous |-> FALSE]
    ELSE [region |-> "cn", ambiguous |-> TRUE]

Supported(f) == ProviderOf(f) = "workbuddy"

-----------------------------------------------------------------------------
(* The page *)

ImportInit ==
    /\ dialog = [open |-> FALSE, file |-> None, region |-> "cn"]
    /\ importing = None
    /\ reading = {}
    /\ picks = 0
    /\ chosen = FALSE
    /\ imports = {}

\* The label and its input are off while a dialog or an import is there.
PickFile(f) ==
    /\ ~dialog.open /\ importing = None /\ picks < MaxPicks
    /\ picks' = picks + 1
    /\ reading' = reading \cup {[n |-> picks', file |-> f]}
    /\ UNCHANGED <<dialog, importing, chosen, imports>>

\* Bug: the modal keeps the region it had.
RegionKept(f, region) == region

\* The modal's effect when what was detected changes.
RegionFor(f, region) == IF RegionOf(f).region = None \/ ~Supported(f) THEN "cn" ELSE RegionOf(f).region

\* file.text() has ended: no JSON object and nobody's bundle are reported, what was
\* detected is shown, in place of a file shown already.
FileRead(r) ==
    /\ r \in reading
    /\ reading' = reading \ {r}
    /\ IF r.file.json /\ ProviderOf(r.file) # None
       THEN /\ dialog' = [open |-> TRUE, file |-> r.file, region |-> RegionFor(r.file, dialog.region)]
            /\ chosen' = FALSE
       ELSE UNCHANGED <<dialog, chosen>>
    /\ UNCHANGED <<importing, picks, imports>>

ChooseRegion(region) ==
    /\ dialog.open /\ Supported(dialog.file) /\ region # dialog.region
    /\ dialog' = [dialog EXCEPT !.region = region]
    /\ chosen' = TRUE
    /\ UNCHANGED <<importing, reading, picks, imports>>

Shut == [dialog EXCEPT !.open = FALSE, !.file = None]

\* closeBatchConfirm
CancelImport ==
    /\ dialog.open /\ importing = None
    /\ dialog' = Shut
    /\ UNCHANGED <<importing, reading, picks, chosen, imports>>

\* onBatchImportConfirm, normalizeWorkbuddyImportBundle: the bundle goes out as
\* WorkBuddy's with the region on display; a format it has is kept unless the bundle
\* lists accounts.
ConfirmImport ==
    /\ dialog.open /\ Supported(dialog.file) /\ importing = None
    /\ importing' = [file |-> dialog.file, region |-> dialog.region,
                     format |-> IF "list" \in dialog.file.has THEN "workbuddy"
                                ELSE IF dialog.file.hint = "" THEN "workbuddy" ELSE dialog.file.hint]
    /\ imports' = imports \cup {[sent |-> importing', chosen |-> chosen]}
    /\ UNCHANGED <<dialog, reading, picks, chosen>>

\* Imported, in whole or in part: the dialog closes whatever it shows by now.
Imported ==
    /\ importing # None
    /\ importing' = None
    /\ dialog' = Shut
    /\ UNCHANGED <<reading, picks, chosen, imports>>

\* The dialog stays, for another try.
ImportFailed ==
    /\ importing # None
    /\ importing' = None
    /\ UNCHANGED <<dialog, reading, picks, chosen, imports>>

ImportNext ==
    \/ \E f \in File : PickFile(f)
    \/ \E r \in reading : FileRead(r)
    \/ \E region \in Region : ChooseRegion(region)
    \/ CancelImport \/ ConfirmImport \/ Imported \/ ImportFailed

ImportSpec == ImportInit /\ [][ImportNext]_importVars

-----------------------------------------------------------------------------
\* Whatever files were read, shown, cancelled and tried again before: an import goes
\* to the region the file itself names unless the operator chose another for it, and
\* a file whose format names another provider is never imported as WorkBuddy's.
ImportsGoWhereTheyBelong ==
    \A i \in imports :
        /\ ~i.chosen /\ ~RegionOf(i.sent.file).ambiguous
              => i.sent.region = RegionOf(i.sent.file).region
        /\ i.sent.file.hint \in Known => i.sent.file.hint = "workbuddy"
=============================================================================
