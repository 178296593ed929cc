------------------------------- MODULE Settings -------------------------------
(***************************************************************************)
(* The settings that every run starts from, and the form that changes      *)
(* them: frontend/components/settings/settings-form.tsx in the browsers of *)
(* several administrators, and backend/app/services/config_service.py.     *)
(*                                                                         *)
(* A provider and its model are a pair of settings, and so are those of    *)
(* the verifier.  The search provider, plan approval and the verification  *)
(* level, which go with no other setting, are sent and written as these    *)
(* are and are left out.                                                   *)
(***************************************************************************)
EXTENDS Naturals

CONSTANTS
    Editors,     \* open settings pages
    Mains,       \* providers; the name stands for the suggested model, too
    Verifiers,   \* those among them that are tried for the verifier
    MaxSaves     \* bound on saves

VARIABLES
    stored,   \* the settings table
    page,     \* LoadState of each page
    told,     \* the settings on their way to a page that loads or saves
    config,   \* what the page was last told
    edited,   \* its form
    saving,   \* a save is under way
    sent,     \* the form that was sent; as config without a save
    todo,     \* the keys the server has yet to write for it
    saves,    \* saves so far
    clashed   \* history: saves met, one was made from old settings or stopped

settingsVars == <<stored, page, told, config, edited, saving, sent, todo, saves, clashed>>

-----------------------------------------------------------------------------
(* Vocabulary *)

Fields == {"provider", "model", "verifier", "verifierModel"}

\* The keys of _WRITABLE, in the order update() goes through them.
Rank(f) == CASE f = "provider" -> 1 [] f = "model" -> 2
             [] f = "verifier" -> 3 [] f = "verifierModel" -> 4

Same   == "same as main"
Custom == "typed"     \* a model that is not suggested, or the empty text
Values == [provider : Mains, model : Mains \cup {Custom},
           verifier : Verifiers \cup {Same}, verifierModel : Verifiers \cup {Custom}]

\* Each model is its provider's, or was typed in.
Fits(v) == v.model \in {v.provider, Custom} /\ v.verifierModel \in {v.verifier, Custom}

SettingsInit ==
    /\ \E p \in Mains : stored = [provider |-> p, model |-> p, verifier |-> Same, verifierModel |-> Custom]
    /\ page = [e \in Editors |-> "loading"] /\ told = [e \in Editors |-> {}]
    /\ config = [e \in Editors |-> stored] /\ edited = config /\ sent = config
    /\ saving = [e \in Editors |-> FALSE] /\ todo = [e \in Editors |-> {}]
    /\ saves = 0 /\ clashed = FALSE

-----------------------------------------------------------------------------
(* Loading *)

\* current(), at the end of a GET or of an update that has written its keys.
ServesConfig(e) ==
    /\ page[e] = "loading" \/ (saving[e] /\ todo[e] = {})
    /\ told[e] = {}
    /\ told' = [told EXCEPT ![e] = {stored}]
    /\ UNCHANGED <<stored, page, config, edited, saving, sent, todo, saves, clashed>>

\* setConfig and setForm
Takes(e, v) ==
    /\ config' = [config EXCEPT ![e] = v]
    /\ edited' = [edited EXCEPT ![e] = v]
    /\ sent'   = [sent EXCEPT ![e] = v]
    /\ told'   = [told EXCEPT ![e] = {}]

Loads(e) ==
    /\ page[e] = "loading"
    /\ page' = [page EXCEPT ![e] = "ready"]
    /\ \E v \in told[e] : Takes(e, v)
    /\ UNCHANGED <<stored, saving, todo, saves, clashed>>

LoadFails(e) ==
    /\ page[e] = "loading"
    /\ page' = [page EXCEPT ![e] = "error"] /\ told' = [told EXCEPT ![e] = {}]
    /\ UNCHANGED <<stored, config, edited, saving, sent, todo, saves, clashed>>

\* The Retry button of the page that could not load.
LoadsAgain(e) ==
    /\ page[e] = "error"
    /\ page' = [page EXCEPT ![e] = "loading"]
    /\ UNCHANGED <<stored, told, config, edited, saving, sent, todo, saves, clashed>>

-----------------------------------------------------------------------------
(* Editing; the form stays open to edits while it is saved *)

\* Edits that no save can follow are left out.
Edits(e, v) ==
    /\ page[e] = "ready" /\ saves < MaxSaves
    /\ edited' = [edited EXCEPT ![e] = v]
    /\ UNCHANGED <<stored, page, told, config, saving, sent, todo, saves, clashed>>

\* Mutant: the model stays when the provider changes.
ModelFor_Same(v, p) == v.model

\* Choosing a provider chooses its first model.
ModelFor(v, p) == p

PicksProvider(e, p) ==
    /\ p # edited[e].provider
    /\ Edits(e, [edited[e] EXCEPT !.provider = p, !.model = ModelFor(edited[e], p)])

\* A model that the provider suggests, or one that is typed in.
PicksModel(e) ==
    Edits(e, [edited[e] EXCEPT !.model = IF @ = Custom THEN edited[e].provider ELSE Custom])

\* The verifier's provider; "same as main" empties both settings.
PicksVerifier(e, p) ==
    /\ p # edited[e].verifier
    /\ Edits(e, [edited[e] EXCEPT !.verifier = p, !.verifierModel = IF p = Same THEN Custom ELSE p])

\* Its model is there to choose when it has a provider of its own.
PicksVerifierModel(e) ==
    /\ edited[e].verifier # Same
    /\ Edits(e, [edited[e] EXCEPT !.verifierModel = IF @ = Custom THEN edited[e].verifier ELSE Custom])

-----------------------------------------------------------------------------
(* Saving *)

Dirty(e) == config[e] # edited[e]

\* The fields that differ from what the page was told.
Payload(base, form) == {f \in Fields : base[f] # form[f]}

\* handleSave
Saves(e) ==
    /\ page[e] = "ready" /\ Dirty(e) /\ ~saving[e] /\ saves < MaxSaves
    /\ todo[e] = {}   \* the server is done with the last one, if that was lost
    /\ saving' = [saving EXCEPT ![e] = TRUE] /\ saves' = saves + 1
    /\ sent' = [sent EXCEPT ![e] = edited[e]]
    /\ todo' = [todo EXCEPT ![e] = Payload(config[e], edited[e])]
    /\ clashed' = (clashed \/ config[e] # stored \/ \E o \in Editors \ {e} : saving[o] \/ todo[o] # {})
    /\ UNCHANGED <<stored, page, told, config, edited>>

\* Mutant: the answer is the form as it is now, not the stored settings.
Written_Now(e) == edited[e]

Written(e) == sent[e]

\* Of a save that the page has given up, only the keys to write are left.
SentAfter(e, left) == IF saving[e] \/ left # {} THEN sent[e] ELSE config[e]

\* update() writes key by key.
WritesKey(e) ==
    \E f \in todo[e] :
        /\ \A g \in todo[e] : Rank(f) <= Rank(g)
        /\ stored' = [stored EXCEPT ![f] = Written(e)[f]]
        /\ todo' = [todo EXCEPT ![e] = @ \ {f}]
        /\ sent' = [sent EXCEPT ![e] = SentAfter(e, todo'[e])]
        /\ UNCHANGED <<page, told, config, edited, saving, saves, clashed>>

Saved(e) ==
    /\ saving[e]
    /\ saving' = [saving EXCEPT ![e] = FALSE]
    /\ \E v \in told[e] : Takes(e, v)
    /\ UNCHANGED <<stored, page, todo, saves, clashed>>

\* Refused before it wrote, or the answer is lost and the server writes on, or
\* the server stops in the middle.
SaveFails(e) ==
    /\ saving[e]
    /\ saving' = [saving EXCEPT ![e] = FALSE] /\ told' = [told EXCEPT ![e] = {}]
    /\ \E left \in {{}, todo[e]} :
          /\ todo' = [todo EXCEPT ![e] = left]
          /\ sent' = [sent EXCEPT ![e] = IF left = {} THEN config[e] ELSE @]
          /\ clashed' = (clashed \/ (left = {} /\ todo[e] \notin {{}, Payload(config[e], sent[e])}))
    /\ UNCHANGED <<stored, page, config, edited, saves>>

-----------------------------------------------------------------------------

SettingsNext ==
    \E e \in Editors :
        \/ ServesConfig(e) \/ Loads(e) \/ LoadFails(e) \/ LoadsAgain(e)
        \/ \E p \in Mains : PicksProvider(e, p)
        \/ \E p \in Verifiers \cup {Same} : PicksVerifier(e, p)
        \/ PicksModel(e) \/ PicksVerifierModel(e)
        \/ Saves(e) \/ WritesKey(e) \/ Saved(e) \/ SaveFails(e)

SettingsSpec == SettingsInit /\ [][SettingsNext]_settingsVars

-----------------------------------------------------------------------------
(* Properties *)

\* A stored model belongs to the stored provider whenever no save is being
\* written, unless saves met or one stopped half-way: each sends what it
\* changed alone, key by key, so two of them, or one made from old settings,
\* can pair one's provider with the other's model.
PairFits == (~clashed /\ \A e \in Editors : todo[e] = {}) => Fits(stored)

\* A save that comes back leaves the form as it is, unless it was edited while
\* the save was under way (those edits are lost) or saves met.
SaveKeepsForm ==
    [][\A e \in Editors :
          (saving[e] /\ ~saving'[e] /\ edited'[e] # edited[e])
              => (edited[e] # sent[e] \/ clashed)]_settingsVars

=============================================================================
