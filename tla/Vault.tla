-------------------------------- MODULE Vault --------------------------------
(***************************************************************************)
(* The provider keys that are stored encrypted under a master key          *)
(* (backend/app/services/vault_service.py), and the change of the master   *)
(* key that a superadmin starts from the credentials panel of the frontend *)
(* (components/admin/credentials-panel.tsx).                               *)
(*                                                                         *)
(* A step is the code between two awaits: a statement takes effect when it *)
(* is sent, and the method goes on in a later step.                        *)
(***************************************************************************)
EXTENDS Naturals

CONSTANTS
    Creds,       \* provider_credentials, by id
    Admins,      \* open panels; each generates one key (a bound), which has its name
    Lookups,     \* runs that resolve the provider's key
    EnvKey,      \* the first AUTOFLOW_MASTER_KEY
    MaxRotations, \* bound on posted rotations
    MaxRestarts   \* bound on restarts of the server

ASSUME VaultAssumption ==
    EnvKey \notin Admins /\ MaxRotations \in Nat /\ MaxRestarts \in Nat

VARIABLES
    cred,      \* the rows: each credential's status, and what encrypts it
    vaultKey,  \* self._vault
    envKey,    \* AUTOFLOW_MASTER_KEY, the source of truth on restart
    rotation,  \* where each admin's rotate_master_key is
    plain,     \* the rows it has read: rows to re-encrypt, and their keys
    pending,   \* the panel: pendingKey is shown or being rotated to, or not there
    lookup,    \* where each resolve is, and what encrypts the row it read
    rotations, restarts,   \* counters
    mixed      \* history: a rotation met an addition, another one or a restart

vaultVars == <<cred, vaultKey, envKey, rotation, plain, pending, lookup, rotations, restarts, mixed>>

-----------------------------------------------------------------------------
(* Vocabulary *)

Keys == Admins \cup {EnvKey}

Stored == {c \in Creds : cred[c].status # "absent"}
Active == {c \in Creds : cred[c].status = "active"}

\* decrypt(), which raises for a row that another key encrypts.
Decrypts(keys) == keys \subseteq {vaultKey}

\* From the rows it reads to the new key in self._vault.
InRotation == {a \in Admins : rotation[a] \in {"reading", "writing"}}

NoRows == [ids |-> {}, keys |-> {}]
NoLookup == [pc |-> "idle", key |-> EnvKey, met |-> FALSE]

VaultInit ==
    /\ cred = [c \in Creds |-> [status |-> "absent", key |-> EnvKey]]
    /\ vaultKey = EnvKey /\ envKey = EnvKey
    /\ rotation = [a \in Admins |-> "no"] /\ plain = [a \in Admins |-> NoRows]
    /\ pending = [a \in Admins |-> "none"]
    /\ lookup = [x \in Lookups |-> NoLookup]
    /\ rotations = 0 /\ restarts = 0 /\ mixed = FALSE

-----------------------------------------------------------------------------
(* Credentials *)

\* Mutant: a new credential is encrypted under the key of the environment.
EncryptionKey_Env == envKey

EncryptionKey == vaultKey

\* add_credential encrypts and inserts in one step.
Adds(c) ==
    /\ cred[c].status = "absent"
    /\ cred' = [cred EXCEPT ![c] = [status |-> "active", key |-> EncryptionKey]]
    /\ mixed' = (mixed \/ InRotation # {})
    /\ UNCHANGED <<vaultKey, envKey, rotation, plain, pending, lookup, rotations, restarts>>

\* revoke; a revoked row is never resolved, but a rotation re-encrypts it.
Revokes(c) ==
    /\ cred[c].status = "active"
    /\ cred' = [cred EXCEPT ![c].status = "revoked"]
    /\ UNCHANGED <<vaultKey, envKey, rotation, plain, pending, lookup, rotations, restarts, mixed>>

\* resolve reads the active rows of the provider, and decrypts the first.
Reads(x) ==
    /\ lookup[x].pc = "idle"
    /\ \E c \in Active :
          lookup' = [lookup EXCEPT ![x] = [pc |-> "read", key |-> cred[c].key,
                                           met |-> InRotation # {}]]
    /\ UNCHANGED <<cred, vaultKey, envKey, rotation, plain, pending, rotations, restarts, mixed>>

\* What it decrypted goes to the run; without it the run cannot start.
Resolves(x) ==
    /\ lookup[x].pc = "read"
    /\ lookup' = [lookup EXCEPT ![x] =
                     IF Decrypts({lookup[x].key}) THEN NoLookup
                     ELSE [lookup[x] EXCEPT !.pc = "failed"]]
    /\ UNCHANGED <<cred, vaultKey, envKey, rotation, plain, pending, rotations, restarts, mixed>>

\* The error has been told; the next run looks the key up again.
LooksAgain(x) ==
    /\ lookup[x].pc = "failed"
    /\ lookup' = [lookup EXCEPT ![x] = NoLookup]
    /\ UNCHANGED <<cred, vaultKey, envKey, rotation, plain, pending, rotations, restarts, mixed>>

-----------------------------------------------------------------------------
(* The panel *)

\* The Rotate button: generateMasterKey. The key is shown to be saved.
Generates(a) ==
    /\ pending[a] = "none"
    /\ pending' = [pending EXCEPT ![a] = "shown"]
    /\ UNCHANGED <<cred, vaultKey, envKey, rotation, plain, lookup, rotations, restarts, mixed>>

Cancels(a) ==
    /\ pending[a] = "shown"
    /\ pending' = [pending EXCEPT ![a] = "over"]
    /\ UNCHANGED <<cred, vaultKey, envKey, rotation, plain, lookup, rotations, restarts, mixed>>

\* "I saved it - rotate now": confirmRotate posts the key, again if the first
\* post failed and is over, and rotate_master_key reads the rows.  To post again
\* while a rotation whose answer was lost still runs is left out: that overlap
\* would be `mixed`, as one of two admins is.
ConfirmsRotate(a) ==
    /\ pending[a] = "shown" /\ rotation[a] = "no" /\ rotations < MaxRotations
    /\ rotations' = rotations + 1
    /\ pending' = [pending EXCEPT ![a] = "rotating"]
    /\ rotation' = [rotation EXCEPT ![a] = "reading"]
    /\ plain' = [plain EXCEPT ![a] = [ids |-> Stored, keys |-> {cred[c].key : c \in Stored}]]
    /\ lookup' = [x \in Lookups |-> [lookup[x] EXCEPT !.met = @ \/ lookup[x].pc = "read"]]
    /\ mixed' = (mixed \/ InRotation # {})
    /\ UNCHANGED <<cred, vaultKey, envKey, restarts>>

\* Mutant: the panel goes on waiting after an error.
RotateReturns_Waits(a) ==
    /\ rotation[a] \in {"done", "refused"}
    /\ pending' = [pending EXCEPT ![a] = IF @ = "rotating" /\ rotation[a] = "done" THEN "over" ELSE @]
    /\ rotation' = [rotation EXCEPT ![a] = "no"]
    /\ UNCHANGED <<cred, vaultKey, envKey, plain, lookup, rotations, restarts, mixed>>

\* The panel shows the new key no more, or an error leaves it there.
RotateReturns(a) ==
    /\ rotation[a] \in {"done", "refused"}
    /\ pending' = [pending EXCEPT ![a] = IF @ # "rotating" THEN @
                                         ELSE IF rotation[a] = "done" THEN "over" ELSE "shown"]
    /\ rotation' = [rotation EXCEPT ![a] = "no"]
    /\ UNCHANGED <<cred, vaultKey, envKey, plain, lookup, rotations, restarts, mixed>>

\* The answer is lost: the panel lets the admin try again or cancel.
RotateLost(a) ==
    /\ pending[a] = "rotating"
    /\ pending' = [pending EXCEPT ![a] = "shown"]
    /\ UNCHANGED <<cred, vaultKey, envKey, rotation, plain, lookup, rotations, restarts, mixed>>

-----------------------------------------------------------------------------
(* rotate_master_key *)

\* Everything is decrypted before anything is written.
AllDecrypt(keys) == Decrypts(keys)

DecryptsAll(a) ==
    /\ rotation[a] = "reading"
    /\ rotation' = [rotation EXCEPT ![a] = IF AllDecrypt(plain[a].keys) THEN "writing" ELSE "refused"]
    /\ plain' = [plain EXCEPT ![a] = IF AllDecrypt(plain[a].keys) THEN @ ELSE NoRows]
    /\ UNCHANGED <<cred, vaultKey, envKey, pending, lookup, rotations, restarts, mixed>>

\* update_ciphertext, for one row after the other.
Reencrypts(a) ==
    /\ rotation[a] = "writing"
    /\ \E c \in plain[a].ids :
          /\ cred' = [cred EXCEPT ![c].key = a]
          /\ plain' = [plain EXCEPT ![a].ids = @ \ {c}]
    /\ UNCHANGED <<vaultKey, envKey, rotation, pending, lookup, rotations, restarts, mixed>>

\* Mutant: the new vault is in place before the last row is written.
RowsLeft_One(a) == plain[a].ids # {} /\ \E c, d \in plain[a].ids : c # d

RowsLeft(a) == plain[a].ids # {}

SwapsVault(a) ==
    /\ rotation[a] = "writing" /\ ~RowsLeft(a)
    /\ vaultKey' = a
    /\ rotation' = [rotation EXCEPT ![a] = "done"]
    /\ plain' = [plain EXCEPT ![a] = NoRows]
    /\ UNCHANGED <<cred, envKey, pending, lookup, rotations, restarts, mixed>>

-----------------------------------------------------------------------------
(* The operator *)

\* AUTOFLOW_MASTER_KEY is updated after the rotation.
Installs ==
    /\ envKey # vaultKey
    /\ envKey' = vaultKey
    /\ UNCHANGED <<cred, vaultKey, rotation, plain, pending, lookup, rotations, restarts, mixed>>

\* The vault starts with the key of the environment.
Restarts ==
    /\ restarts < MaxRestarts
    /\ restarts' = restarts + 1
    /\ vaultKey' = envKey
    /\ rotation' = [a \in Admins |-> IF rotation[a] = "no" THEN "no" ELSE "refused"]
    /\ plain' = [a \in Admins |-> NoRows]
    /\ lookup' = [x \in Lookups |-> NoLookup]
    /\ mixed' = (mixed \/ InRotation # {} \/ envKey # vaultKey)
    /\ UNCHANGED <<cred, envKey, pending, rotations>>

-----------------------------------------------------------------------------

VaultNext ==
    \/ \E c \in Creds : Adds(c) \/ Revokes(c)
    \/ \E x \in Lookups : Reads(x) \/ Resolves(x) \/ LooksAgain(x)
    \/ \E a \in Admins :
          \/ Generates(a) \/ Cancels(a) \/ ConfirmsRotate(a) \/ RotateReturns(a) \/ RotateLost(a)
          \/ DecryptsAll(a) \/ Reencrypts(a) \/ SwapsVault(a)
    \/ Installs \/ Restarts

VaultSpec == VaultInit /\ [][VaultNext]_vaultVars

-----------------------------------------------------------------------------
(* Properties *)

\* Types of the variables.
VaultTypeOK ==
    /\ cred \in [Creds -> [status : {"absent", "active", "revoked"}, key : Keys]]
    /\ vaultKey \in Keys /\ envKey \in Keys
    /\ rotation \in [Admins -> {"no", "reading", "writing", "done", "refused"}]
    /\ plain \in [Admins -> [ids : SUBSET Creds, keys : SUBSET Keys]]
    /\ pending \in [Admins -> {"none", "shown", "rotating", "over"}]
    /\ lookup \in [Lookups -> [pc : {"idle", "read", "failed"}, key : Keys, met : BOOLEAN]]
    /\ rotations \in 0..MaxRotations /\ restarts \in 0..MaxRestarts
    /\ mixed \in BOOLEAN

\* A panel that waits for its rotation, with its buttons disabled, waits for one
\* that is under way, also when the server was restarted or refused it.
PanelIsFreed == \A a \in Admins : pending[a] = "rotating" => rotation[a] # "no"

\* A master-key rotation is all or nothing: when none is under way the vault's
\* key decrypts every stored credential, also one that was revoked, unless a
\* rotation met an addition, another rotation, or a restart, or the server was
\* restarted before the operator installed the new key.
AllReadable == (~mixed /\ InRotation = {}) => \A c \in Stored : cred[c].key = vaultKey

\* A run is refused its provider's key only if a rotation was under way while
\* it looked the key up, or for the reasons above.
KeyIsResolved == \A x \in Lookups : lookup[x].pc = "failed" => (lookup[x].met \/ mixed)

\* Under the same conditions a rotation that was started succeeds.
RotationSucceeds ==
    [][\A a \in Admins : (rotation[a] = "reading" /\ rotation'[a] = "refused") => mixed']_vaultVars

=============================================================================
