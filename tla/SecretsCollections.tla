------------------------- MODULE SecretsCollections -------------------------
(***************************************************************************)
(* The collection half of the secrets request processor                    *)
(* (src/daemon/SecretsImpl/secretsrequestprocessor.cpp): the master        *)
(* Collections and Secrets tables, the storage plugins' collections and    *)
(* payloads, the encrypted-storage plugins' lock state, the in-memory key  *)
(* cache and relock timers, and the pending-request table through which   *)
(* custom-lock operations wait for an authentication plugin.              *)
(*                                                                         *)
(* Each processor entry point runs to completion on the event loop, so it  *)
(* is one action; the only suspension is beginAuthentication, after which *)
(* the request is parked and resumed by AuthenticationCompleted.  Plugin  *)
(* and database calls that can fail are nondeterministic, enabled by       *)
(* PluginCanFail and DbCanFail.                                            *)
(***************************************************************************)
EXTENDS Naturals, FiniteSets

CONSTANTS
    Apps,            \* application ids of callers
    Names,           \* collection names clients use
    Standalone,      \* the reserved collection name "standalone"
    SecretNames,     \* secret names
    Values,          \* secret byte vectors
    Keys,            \* authentication keys a user can type in
    DeviceLockKey,   \* the process-wide device-lock key
    NoKey,           \* the empty QByteArray
    Garbage,         \* what a decryption under the wrong key may yield
    StoragePlugins,          \* names in m_storagePlugins
    EncryptionPlugins,       \* names in m_encryptionPlugins
    EncryptedStoragePlugins, \* names in m_encryptedStoragePlugins
    AuthPlugins,             \* names in m_authenticationPlugins
    AppSpecificAuthPlugins,  \* those of ApplicationSpecificAuthentication type
    DefaultAuthPlugin,       \* SecretManager::DefaultAuthenticationPluginName
    PluginChoices,   \* <<storage, encryption>> name pairs clients pass
    MaxRequests,     \* request ids the queue can have in use at once
    PluginCanFail,   \* plugin operations may fail
    DbCanFail        \* database statements may fail

ASSUME ConstantsAssumption ==
    /\ Standalone \notin Names
    /\ DeviceLockKey \notin Keys /\ NoKey \notin Keys
    /\ DeviceLockKey # NoKey
    /\ Garbage \notin Values
    /\ AppSpecificAuthPlugins \subseteq AuthPlugins
    /\ MaxRequests \in Nat \ {0}
    /\ PluginCanFail \in BOOLEAN /\ DbCanFail \in BOOLEAN

AllNames == Names \cup {Standalone}
KeyVals == Keys \cup {DeviceLockKey, NoKey}
ReqIds == 0..(MaxRequests - 1)
UiModes == {"Prevent", "System", "InProcess"}
\* Whether a uiServiceAddress is given.
UiAddresses == BOOLEAN
\* UnlockSemantic values: a device-lock collection stores a
\* DeviceLockUnlockSemantic, a custom-lock one a CustomLockUnlockSemantic;
\* only CustomLockTimoutRelock is ever compared with, so one other value of
\* each kind stands for the rest.
DeviceLockSemantics == {"DeviceLockKeepUnlocked"}
CustomSemantics == {"CustomLockKeepUnlocked", "CustomLockTimoutRelock"}
Semantics == DeviceLockSemantics \cup CustomSemantics
AccessModes == {"OwnerOnly", "System"}

\* A row of the Collections table.
Row == [owner : Apps \cup {Standalone}, dl : BOOLEAN,
        storage : StoragePlugins \cup EncryptedStoragePlugins \cup {Standalone},
        enc : EncryptionPlugins \cup EncryptedStoragePlugins \cup {Standalone},
        auth : AuthPlugins \cup {DefaultAuthPlugin, Standalone},
        sem : Semantics, acm : AccessModes]
NoRow == [none |-> TRUE]

\* A plugin payload: the value, the key it was encrypted under, and (ghost)
\* the application whose request wrote it.
Data == [v : Values \cup {Garbage}, k : KeyVals, w : Apps]
NoData == [none |-> TRUE]

\* The outcome a call of the plugin or database may have.
PluginOutcomes == IF PluginCanFail THEN {TRUE, FALSE} ELSE {TRUE}
DbOutcomes == IF DbCanFail THEN {TRUE, FALSE} ELSE {TRUE}

VARIABLES
    collections,  \* Collections table: name -> row
    secretRows,   \* Secrets table: <<collection, secret>> pairs
    pcoll,        \* <<plugin, collection>>: collections that exist in a plugin
    pdata,        \* plugin payloads: <<collection, secret>> -> Data
    ekey,         \* encrypted-storage plugin: key a collection was created with
    unlocked,     \* encrypted-storage plugin: collections currently unlocked
    keys,         \* m_collectionAuthenticationKeys
    timers,       \* m_collectionLockTimers
    pending,      \* m_pendingRequests: request id -> parked request
    flows,        \* authentication flows the plugins still run (by request id)
    last          \* ghost: the reply to the last finished request

vars == <<collections, secretRows, pcoll, pdata, ekey, unlocked, keys,
          timers, pending, flows, last>>

StandaloneRow ==
    [owner |-> Standalone, dl |-> FALSE, storage |-> Standalone,
     enc |-> Standalone, auth |-> Standalone, sem |-> "DeviceLockKeepUnlocked",
     acm |-> "OwnerOnly"]

Exists(c) == collections[c] # NoRow
\* The plugin a row names holds the collection.
InPlugin(c, r) == <<r.storage, c>> \in pcoll
Encrypted(r) == r.storage = r.enc

\* A reply: operation, caller, result code, collection, the payload a read
\* returned, and whether the request went through authentication.
Reply == [op : STRING, app : Apps, code : STRING, c : AllNames,
          data : Data \cup {NoData}, viaAuth : BOOLEAN]
NoReply == [none |-> TRUE]

\* A parked request of m_pendingRequests: its type, the caller, and the
\* argument vector (for SetCollectionSecret the collection row read when
\* it parked, for the others the arguments the continuation reads).
Parked == [type : STRING, app : Apps, c : AllNames, s : SecretNames,
           v : Values, row : Row, ap : AuthPlugins]
NoPending == [none |-> TRUE]

Init ==
    /\ collections = [c \in AllNames |-> IF c = Standalone THEN StandaloneRow
                                                           ELSE NoRow]
    /\ secretRows = {}
    /\ pcoll = {}
    /\ pdata = [p \in Names \X SecretNames |-> NoData]
    /\ ekey = [c \in Names |-> NoKey]
    /\ unlocked = {}
    /\ keys = [c \in Names |-> NoKey]
    /\ timers = {}
    /\ pending = [i \in ReqIds |-> NoPending]
    /\ flows = {}
    /\ last = NoReply
-----------------------------------------------------------------------------
(***************************************************************************)
(* Helpers shared by the handlers.                                         *)
(***************************************************************************)

\* requestFinished (or the immediate reply) of a request.
Answer(op, app, code, c, data, via) ==
    last' = [op |-> op, app |-> app, code |-> code, c |-> c, data |-> data,
             viaAuth |-> via]

\* A client call is queued under an id no request in progress holds (the
\* queue's free-id search); with none free it is refused as QueueFull and
\* never reaches the processor.  Requests answered at once free their id
\* in the same pass, so only the parked ones hold one.  The processor only
\* compares ids for equality, so the lowest free id stands for any.
NewCall(rid) ==
    /\ rid \in ReqIds \ flows
    /\ \A j \in ReqIds \ flows : rid <= j

\* beginAuthentication succeeded: the plugin runs a flow for the request and
\* the processor records the pending request under its id.
Park(rid, pr) ==
    /\ flows' = flows \cup {rid}
    /\ pending' = [pending EXCEPT ![rid] = pr]

\* The validation chain shared by both create handlers: reserved name, then
\* the plugin names (an equal pair must name an encrypted-storage plugin,
\* and in any case the storage name must be a storage plugin and the
\* encryption name an encryption plugin).
CreatePluginCheckNoStorage(c, sp, ep) ==
    IF c = Standalone THEN "InvalidCollectionError"
    ELSE IF sp = ep /\ sp \notin EncryptedStoragePlugins
        THEN "InvalidExtensionPluginError"
    ELSE IF ep \notin EncryptionPlugins THEN "InvalidExtensionPluginError"
    ELSE "ok"

CreatePluginCheck(c, sp, ep) ==
    IF c = Standalone THEN "InvalidCollectionError"
    ELSE IF sp = ep /\ sp \notin EncryptedStoragePlugins
        THEN "InvalidExtensionPluginError"
    ELSE IF sp \notin StoragePlugins THEN "InvalidExtensionPluginError"
    ELSE IF ep \notin EncryptionPlugins THEN "InvalidExtensionPluginError"
    ELSE "ok"

(***************************************************************************)
(* The tail both create handlers share once the Collections row has been  *)
(* committed: the plugin creates the collection (an encrypted-storage     *)
(* plugin with the key, leaving it open or locked as that plugin does,   *)
(* which the daemon does not fix; a storage plugin without,              *)
(* the key going to the cache whatever the plugin answered), and if the   *)
(* plugin failed a compensating delete of the row, which can itself fail  *)
(* and leave the row behind.                                               *)
(***************************************************************************)
CreateInPlugin(op, app, c, row, key) ==
    LET home == <<row.storage, c>>
    IN
    \/ /\ home \notin pcoll
       /\ pcoll' = pcoll \cup {home}
       /\ collections' = [collections EXCEPT ![c] = row]
       /\ IF Encrypted(row)
            THEN /\ ekey' = [ekey EXCEPT ![c] = key]
                 /\ \E open \in BOOLEAN :
                       unlocked' = IF open THEN unlocked \cup {c} ELSE unlocked
                 /\ UNCHANGED keys
            ELSE /\ keys' = [keys EXCEPT ![c] = key]
                 /\ UNCHANGED <<ekey, unlocked>>
       /\ Answer(op, app, "Succeeded", c, NoData, op = "CreateCustomLockCollection")
    \/ /\ home \in pcoll \/ PluginCanFail
       /\ \E compensated \in DbOutcomes :
             /\ collections' = [collections EXCEPT ![c] =
                                    IF compensated THEN NoRow ELSE row]
             /\ Answer(op, app, IF compensated THEN "PluginError" ELSE "DatabaseError",
                       c, NoData, op = "CreateCustomLockCollection")
       /\ keys' = IF Encrypted(row) THEN keys ELSE [keys EXCEPT ![c] = key]
       /\ UNCHANGED <<pcoll, ekey, unlocked>>

(***************************************************************************)
(* createDeviceLockCollection: validate, check the name is free, insert    *)
(* the row (UsesDeviceLockKey = 1, the default authentication plugin),     *)
(* then create the collection in the plugin under the device-lock key.     *)
(***************************************************************************)
CreateDeviceLockCollection ==
    \E rid \in ReqIds, app \in Apps, c \in AllNames, pc \in PluginChoices, sem \in DeviceLockSemantics,
      acm \in AccessModes :
        LET row == [owner |-> app, dl |-> TRUE, storage |-> pc[1], enc |-> pc[2],
                    auth |-> DefaultAuthPlugin, sem |-> sem, acm |-> acm]
            err == CreatePluginCheck(c, pc[1], pc[2])
        IN
        /\ NewCall(rid)
        /\ \/ /\ err # "ok"
              /\ Answer("CreateDeviceLockCollection", app, err, c, NoData, FALSE)
              /\ UNCHANGED <<collections, pcoll, ekey, unlocked, keys>>
           \/ /\ err = "ok"
              /\ Exists(c)
              /\ Answer("CreateDeviceLockCollection", app,
                        "CollectionAlreadyExistsError", c, NoData, FALSE)
              /\ UNCHANGED <<collections, pcoll, ekey, unlocked, keys>>
           \/ /\ err = "ok"
              /\ ~Exists(c)
              /\ DbCanFail
              /\ Answer("CreateDeviceLockCollection", app, "DatabaseError", c,
                        NoData, FALSE)
              /\ UNCHANGED <<collections, pcoll, ekey, unlocked, keys>>
           \/ /\ err = "ok"
              /\ ~Exists(c)
              /\ CreateInPlugin("CreateDeviceLockCollection", app, c, row,
                                DeviceLockKey)
        /\ UNCHANGED <<secretRows, pdata, timers, pending, flows>>

(***************************************************************************)
(* createCustomLockCollection: the same validation plus the authentication *)
(* plugin and the interaction mode, the name check, then                   *)
(* beginAuthentication and a parked CreateCustomLockCollectionRequest; no  *)
(* row is written before the key arrives.                                  *)
(***************************************************************************)
CreateCustomLockCheck(c, pc, ap, ui, addr) ==
    LET err == CreatePluginCheck(c, pc[1], pc[2])
    IN  IF err # "ok" THEN err
        ELSE IF ap \notin AuthPlugins THEN "InvalidExtensionPluginError"
        ELSE IF ap \in AppSpecificAuthPlugins /\ (ui # "InProcess" \/ ~addr)
            THEN "OperationRequiresInProcessUserInteraction"
        ELSE IF ui = "Prevent" THEN "OperationRequiresUserInteraction"
        ELSE IF Exists(c) THEN "CollectionAlreadyExistsError"
        ELSE "ok"

CreateCustomLockCollection ==
    \E rid \in ReqIds, app \in Apps, c \in AllNames, pc \in PluginChoices,
      ap \in AuthPlugins \cup {DefaultAuthPlugin}, sem \in CustomSemantics,
      acm \in AccessModes, ui \in UiModes, addr \in UiAddresses, begun \in PluginOutcomes :
        LET err == CreateCustomLockCheck(c, pc, ap, ui, addr)
            row == [owner |-> app, dl |-> FALSE, storage |-> pc[1], enc |-> pc[2],
                    auth |-> ap, sem |-> sem, acm |-> acm]
        IN
        /\ NewCall(rid)
        /\ \/ /\ err # "ok"
              /\ Answer("CreateCustomLockCollection", app, err, c, NoData, FALSE)
              /\ UNCHANGED <<pending, flows>>
           \/ /\ err = "ok"
              /\ ~begun
              /\ Answer("CreateCustomLockCollection", app, "AuthenticationError",
                        c, NoData, FALSE)
              /\ UNCHANGED <<pending, flows>>
           \/ /\ err = "ok"
              /\ begun
              /\ Park(rid, [type |-> "CreateCustomLockCollection", app |-> app,
                              c |-> c, s |-> CHOOSE s \in SecretNames : TRUE,
                              v |-> CHOOSE v \in Values : TRUE, row |-> row,
                              ap |-> ap])
              /\ UNCHANGED last
        /\ UNCHANGED <<collections, secretRows, pcoll, pdata, ekey, unlocked,
                       keys, timers>>

\* createCustomLockCollectionWithAuthenticationKey: check the name again,
\* insert the row (UsesDeviceLockKey = 0), create in the plugin with the key.
CreateCustomLockCollectionWithAuthenticationKey(pr, key) ==
    \/ /\ Exists(pr.c)
       /\ Answer(pr.type, pr.app, "CollectionAlreadyExistsError", pr.c,
                 NoData, TRUE)
       /\ UNCHANGED <<collections, pcoll, ekey, unlocked, keys>>
    \/ /\ ~Exists(pr.c)
       /\ DbCanFail
       /\ Answer(pr.type, pr.app, "DatabaseError", pr.c, NoData, TRUE)
       /\ UNCHANGED <<collections, pcoll, ekey, unlocked, keys>>
    \/ /\ ~Exists(pr.c)
       /\ CreateInPlugin(pr.type, pr.app, pr.c, pr.row, key)

store == <<collections, secretRows, pcoll, pdata, ekey, unlocked, keys, timers>>

(***************************************************************************)
(* Unlocking an encrypted-storage collection inside a continuation:        *)
(* isLocked; if locked, setEncryptionKey(key) and isLocked again.  A       *)
(* failing setEncryptionKey is followed by setEncryptionKey(empty) and     *)
(* SecretsPluginDecryptionError; a key that leaves it locked by            *)
(* setEncryptionKey(empty) and IncorrectAuthenticationKeyError.  Only the  *)
(* creation key unlocks; a wrong one may be refused or silently ignored.   *)
(* The outcomes are records of the result and the new unlocked set.        *)
(***************************************************************************)
EncUnlock(c, key) ==
    IF c \in unlocked THEN {[code |-> "ok", unl |-> unlocked]}
    ELSE IF key = ekey[c] /\ key # NoKey
        THEN {[code |-> "ok", unl |-> unlocked \cup {c}]} \cup
             (IF PluginCanFail
                THEN {[code |-> "SecretsPluginDecryptionError", unl |-> unlocked]}
                ELSE {})
    ELSE {[code |-> "SecretsPluginDecryptionError", unl |-> unlocked],
          [code |-> "IncorrectAuthenticationKeyError", unl |-> unlocked]}

\* What the plain-storage path decrypts a payload to under the cached key:
\* AES-256-CBC (evp_p.h) under another key mostly fails on the padding
\* check and otherwise yields garbage.
Decrypt(d, key) ==
    IF d.k = key THEN {[code |-> "Succeeded", data |-> d]}
    ELSE {[code |-> "SecretsPluginDecryptionError", data |-> NoData],
          [code |-> "Succeeded", data |-> [d EXCEPT !.v = Garbage]]}

(***************************************************************************)
(* The unlock-or-park step of the three secret handlers.  With a usable    *)
(* key (an unlocked encrypted-storage collection, or a cached key) the     *)
(* handler's continuation runs at once with OpenKey; otherwise            *)
(* UnlockOrPark answers (isLocked failing, CollectionIsLocked for a       *)
(* device-lock collection, Prevent mode needing user interaction, a       *)
(* failing beginAuthentication) or parks the request as pr.               *)
(***************************************************************************)
Probed(c, r) == Encrypted(r) => InPlugin(c, r)
Usable(c, r) == IF Encrypted(r) THEN c \in unlocked ELSE keys[c] # NoKey
OpenKey(c, r) == IF Encrypted(r) THEN NoKey ELSE keys[c]
RunsAtOnce(c, r) == Probed(c, r) /\ Usable(c, r)

UnlockOrPark(op, app, rid, c, r, ui, begun, pr) ==
    \/ /\ ~Probed(c, r)
       /\ Answer(op, app, "PluginError", c, NoData, FALSE)
       /\ UNCHANGED <<store, pending, flows>>
    \/ /\ Probed(c, r) /\ ~Usable(c, r)
       /\ r.dl
       /\ Answer(op, app, "CollectionIsLockedError", c, NoData, FALSE)
       /\ UNCHANGED <<store, pending, flows>>
    \/ /\ Probed(c, r) /\ ~Usable(c, r)
       /\ ~r.dl
       /\ ui = "Prevent"
       /\ Answer(op, app, "OperationRequiresUserInteraction", c, NoData, FALSE)
       /\ UNCHANGED <<store, pending, flows>>
    \/ /\ Probed(c, r) /\ ~Usable(c, r)
       /\ ~r.dl
       /\ ui # "Prevent"
       /\ ~begun
       /\ Answer(op, app, "AuthenticationError", c, NoData, FALSE)
       /\ UNCHANGED <<store, pending, flows>>
    \/ /\ Probed(c, r) /\ ~Usable(c, r)
       /\ ~r.dl
       /\ ui # "Prevent"
       /\ begun
       /\ Park(rid, pr)
       /\ UNCHANGED <<store, last>>

\* The plugin checks of the secret handlers on a stored row.
RowPluginCheck(r) ==
    IF Encrypted(r) /\ r.storage \notin EncryptedStoragePlugins
        THEN "InvalidExtensionPluginError"
    ELSE IF ~Encrypted(r) /\ r.storage \notin StoragePlugins
        THEN "InvalidExtensionPluginError"
    ELSE IF ~Encrypted(r) /\ r.enc \notin EncryptionPlugins
        THEN "InvalidExtensionPluginError"
    ELSE "ok"

-----------------------------------------------------------------------------
(***************************************************************************)
(* deleteCollection: reserved name rejected, an absent collection is a     *)
(* success, plugin checks (without the encrypted-storage exemption), the   *)
(* plugin removes the collection (a failure returns at once), the key and  *)
(* timer caches are purged, and the row is deleted (its Secrets rows go   *)
(* with it by the schema's cascade).  The caller's application id is      *)
(* computed but never compared with the owner.                             *)
(***************************************************************************)
DeleteCollectionCheck(c) ==
    LET r == collections[c]
    IN  IF c = Standalone THEN "InvalidCollectionError"
        ELSE IF ~Exists(c) THEN "Succeeded"
        ELSE IF Encrypted(r) /\ r.storage \notin EncryptedStoragePlugins
            THEN "InvalidExtensionPluginError"
        ELSE IF r.storage \notin StoragePlugins THEN "InvalidExtensionPluginError"
        ELSE "ok"

DeleteCollection ==
    \E rid \in ReqIds, app \in Apps, c \in AllNames, removed \in PluginOutcomes,
      deleted \in DbOutcomes :
        LET err == DeleteCollectionCheck(c)
        IN
        /\ NewCall(rid)
        /\ \/ /\ err # "ok"
              /\ Answer("DeleteCollection", app, err, c, NoData, FALSE)
              /\ UNCHANGED store
           \/ /\ err = "ok"
              /\ ~removed
              /\ Answer("DeleteCollection", app, "PluginError", c, NoData, FALSE)
              /\ UNCHANGED store
           \/ /\ err = "ok"
              /\ removed
              /\ pcoll' = pcoll \ {<<collections[c].storage, c>>}
              /\ pdata' = [p \in DOMAIN pdata |-> IF p[1] = c THEN NoData ELSE pdata[p]]
              /\ ekey' = [ekey EXCEPT ![c] = NoKey]
              /\ unlocked' = unlocked \ {c}
              /\ keys' = [keys EXCEPT ![c] = NoKey]
              /\ timers' = timers \ {c}
              /\ collections' = IF deleted THEN [collections EXCEPT ![c] = NoRow]
                                           ELSE collections
              /\ secretRows' = IF deleted THEN {p \in secretRows : p[1] # c}
                                          ELSE secretRows
              /\ Answer("DeleteCollection", app,
                        IF deleted THEN "Succeeded" ELSE "DatabaseError", c,
                        NoData, FALSE)
        /\ UNCHANGED <<pending, flows>>
-----------------------------------------------------------------------------
\* Whether the Secrets row outlives a write: kept when the plugin wrote it,
\* when the secret existed before, or when the compensating delete failed.
RowSurvivesWriteCompensateAlways(new, ok, compensated) == ok \/ ~compensated

RowSurvivesWrite(new, ok, compensated) == ok \/ ~new \/ ~compensated

(***************************************************************************)
(* setCollectionSecretWithAuthenticationKey, run with the collection row   *)
(* the handler read (for a parked request, the row as it was when it      *)
(* parked): insert the Secrets row first if the secret is new, then write *)
(* the payload (an encrypted-storage plugin after unlocking it with the   *)
(* key, a storage plugin encrypted under the cached key, which the key   *)
(* becomes if none is cached), and delete a new row again if the plugin   *)
(* write failed.  The early returns after a failed unlock skip that      *)
(* compensation.  The Secrets insert obeys the foreign key on             *)
(* Collections.                                                            *)
(***************************************************************************)
SetCollectionSecretWithAuthenticationKey(app, c, s, v, r, key, via) ==
    \E inserted \in DbOutcomes, unl \in EncUnlock(c, key),
      written \in PluginOutcomes, compensated \in DbOutcomes :
        LET new == <<c, s>> \notin secretRows
            rowOk == ~new \/ (inserted /\ Exists(c))
            reached == Encrypted(r) => (InPlugin(c, r) /\ unl.code = "ok")
            k == IF keys[c] = NoKey THEN key ELSE keys[c]
            ok == InPlugin(c, r) /\ reached /\ written
            d == [v |-> v, k |-> IF Encrypted(r) THEN ekey[c] ELSE k, w |-> app]
        IN
        \/ /\ ~rowOk
           /\ Answer("SetCollectionSecret", app, "DatabaseError", c, NoData, via)
           /\ UNCHANGED store
        \/ /\ rowOk
           /\ Encrypted(r) /\ InPlugin(c, r) /\ unl.code # "ok"
           /\ secretRows' = secretRows \cup {<<c, s>>}
           /\ Answer("SetCollectionSecret", app, unl.code, c, NoData, via)
           /\ UNCHANGED <<collections, pcoll, pdata, ekey, unlocked, keys, timers>>
        \/ /\ rowOk
           /\ reached \/ ~InPlugin(c, r)
           /\ pdata' = IF ok THEN [pdata EXCEPT ![<<c, s>>] = d] ELSE pdata
           /\ unlocked' = IF Encrypted(r) /\ InPlugin(c, r) THEN unl.unl ELSE unlocked
           /\ keys' = IF Encrypted(r) THEN keys ELSE [keys EXCEPT ![c] = k]
           /\ secretRows' = IF RowSurvivesWrite(new, ok, compensated)
                              THEN secretRows \cup {<<c, s>>}
                              ELSE secretRows \ {<<c, s>>}
           /\ Answer("SetCollectionSecret", app,
                     IF ok THEN "Succeeded"
                     ELSE IF ~new \/ compensated THEN "PluginError"
                     ELSE "DatabaseError", c, NoData, via)
           /\ UNCHANGED <<collections, pcoll, ekey, timers>>

\* The checks of setCollectionSecret on the collection's row.
SetCollectionSecretCheck(app, c) ==
    LET r == collections[c]
    IN  IF c = Standalone THEN "InvalidCollectionError"
        ELSE IF ~Exists(c) THEN "InvalidCollectionError"
        ELSE IF r.acm # "OwnerOnly" THEN "OperationNotSupportedError"
        ELSE IF r.owner # app THEN "PermissionsError"
        ELSE RowPluginCheck(r)

(***************************************************************************)
(* setCollectionSecret: check the collection and the caller, then unlock  *)
(* or park; a parked request keeps the row it read.                       *)
(***************************************************************************)
SetCollectionSecret ==
    \E rid \in ReqIds, app \in Apps, c \in AllNames, s \in SecretNames, v \in Values,
      ui \in UiModes, begun \in PluginOutcomes :
        LET err == SetCollectionSecretCheck(app, c)
            r == collections[c]
        IN
        /\ NewCall(rid)
        /\ \/ /\ err # "ok"
              /\ Answer("SetCollectionSecret", app, err, c, NoData, FALSE)
              /\ UNCHANGED <<store, pending, flows>>
           \/ /\ err = "ok"
              /\ RunsAtOnce(c, r)
              /\ SetCollectionSecretWithAuthenticationKey(app, c, s, v, r,
                                                          OpenKey(c, r), FALSE)
              /\ UNCHANGED <<pending, flows>>
           \/ /\ err = "ok"
              /\ ~RunsAtOnce(c, r)
              /\ UnlockOrPark("SetCollectionSecret", app, rid, c, r, ui, begun,
                    [type |-> "SetCollectionSecret", app |-> app, c |-> c, s |-> s,
                     v |-> v, row |-> r, ap |-> r.auth])
-----------------------------------------------------------------------------
(***************************************************************************)
(* getCollectionSecretWithAuthenticationKey, run with the plugin names and *)
(* unlock semantic the handler read: arm the relock timer of a            *)
(* CustomLockTimoutRelock collection if none is armed, then read the      *)
(* payload (an encrypted-storage plugin after unlocking it, a storage     *)
(* plugin decrypted under the cached key, which the key becomes if none  *)
(* is cached).                                                             *)
(***************************************************************************)
GetCollectionSecretWithAuthenticationKey(app, c, s, r, key, via) ==
    \E unl \in EncUnlock(c, key), read \in PluginOutcomes :
        LET k == IF keys[c] = NoKey THEN key ELSE keys[c]
            d == pdata[<<c, s>>]
            found == InPlugin(c, r) /\ read /\ d # NoData
        IN
        /\ timers' = IF r.sem = "CustomLockTimoutRelock" THEN timers \cup {c}
                                                         ELSE timers
        /\ \/ /\ Encrypted(r)
              /\ ~InPlugin(c, r)
              /\ Answer("GetCollectionSecret", app, "PluginError", c, NoData, via)
              /\ UNCHANGED <<unlocked, keys>>
           \/ /\ Encrypted(r)
              /\ InPlugin(c, r)
              /\ unlocked' = unl.unl
              /\ Answer("GetCollectionSecret", app,
                        IF unl.code # "ok" THEN unl.code
                        ELSE IF found THEN "Succeeded" ELSE "PluginError",
                        c, IF unl.code = "ok" /\ found THEN d ELSE NoData, via)
              /\ UNCHANGED keys
           \/ /\ ~Encrypted(r)
              /\ keys' = [keys EXCEPT ![c] = k]
              /\ ~found
              /\ Answer("GetCollectionSecret", app, "PluginError", c, NoData, via)
              /\ UNCHANGED unlocked
           \/ /\ ~Encrypted(r)
              /\ keys' = [keys EXCEPT ![c] = k]
              /\ found
              /\ \E out \in Decrypt(d, k) :
                    Answer("GetCollectionSecret", app, out.code, c, out.data, via)
              /\ UNCHANGED unlocked
        /\ UNCHANGED <<collections, secretRows, pcoll, pdata, ekey>>

\* The checks of getCollectionSecret: the row, its plugins, the caller, the
\* authentication plugin and, for an application-specific one, in-process
\* interaction with a service address.
GetCollectionSecretCheck(app, c, ui, addr) ==
    LET r == collections[c]
    IN  IF c = Standalone THEN "InvalidCollectionError"
        ELSE IF ~Exists(c) THEN "InvalidCollectionError"
        ELSE IF RowPluginCheck(r) # "ok" THEN RowPluginCheck(r)
        ELSE IF r.acm # "OwnerOnly" THEN "OperationNotSupportedError"
        ELSE IF r.owner # app THEN "PermissionsError"
        ELSE IF r.auth \notin AuthPlugins THEN "InvalidExtensionPluginError"
        ELSE IF r.auth \in AppSpecificAuthPlugins /\ (ui # "InProcess" \/ ~addr)
            THEN "OperationRequiresInProcessUserInteraction"
        ELSE "ok"

\* getCollectionSecret: check, then unlock or park; a parked request keeps
\* the plugin names and unlock semantic it read.
GetCollectionSecret ==
    \E rid \in ReqIds, app \in Apps, c \in AllNames, s \in SecretNames, ui \in UiModes,
      addr \in UiAddresses, begun \in PluginOutcomes :
        LET err == GetCollectionSecretCheck(app, c, ui, addr)
            r == collections[c]
        IN
        /\ NewCall(rid)
        /\ \/ /\ err # "ok"
              /\ Answer("GetCollectionSecret", app, err, c, NoData, FALSE)
              /\ UNCHANGED <<store, pending, flows>>
           \/ /\ err = "ok"
              /\ RunsAtOnce(c, r)
              /\ GetCollectionSecretWithAuthenticationKey(app, c, s, r,
                                                          OpenKey(c, r), FALSE)
              /\ UNCHANGED <<pending, flows>>
           \/ /\ err = "ok"
              /\ ~RunsAtOnce(c, r)
              /\ UnlockOrPark("GetCollectionSecret", app, rid, c, r, ui, begun,
                    [type |-> "GetCollectionSecret", app |-> app, c |-> c, s |-> s,
                     v |-> CHOOSE v \in Values : TRUE, row |-> r, ap |-> r.auth])
-----------------------------------------------------------------------------
(***************************************************************************)
(* deleteCollectionSecretWithAuthenticationKey: read the row again (it may *)
(* have changed while authentication ran), require the device-lock key    *)
(* for a device-lock collection, check the caller, remove the payload     *)
(* (an encrypted-storage plugin after unlocking it, a storage plugin      *)
(* after caching the key if none is cached), and on success delete the    *)
(* Secrets row.                                                            *)
(***************************************************************************)
\* The continuation's second look at the row, before any plugin call.
DeleteRecheckNoOwner(app, c, key) ==
    IF ~Exists(c) THEN "InvalidCollectionError"
    ELSE IF collections[c].dl /\ key # DeviceLockKey
        THEN "IncorrectAuthenticationKeyError"
    ELSE IF collections[c].acm # "OwnerOnly" THEN "OperationNotSupportedError"
    ELSE "ok"

DeleteRecheck(app, c, key) ==
    IF ~Exists(c) THEN "InvalidCollectionError"
    ELSE IF collections[c].dl /\ key # DeviceLockKey
        THEN "IncorrectAuthenticationKeyError"
    ELSE IF collections[c].acm # "OwnerOnly" THEN "OperationNotSupportedError"
    ELSE IF collections[c].owner # app THEN "PermissionsError"
    ELSE "ok"

DeleteCollectionSecretWithAuthenticationKey(app, c, s, key, via) ==
    \E unl \in EncUnlock(c, key), removed \in PluginOutcomes,
      deleted \in DbOutcomes :
        LET r == collections[c]
            err == IF DeleteRecheck(app, c, key) # "ok" THEN DeleteRecheck(app, c, key)
                   ELSE IF Encrypted(r) /\ ~InPlugin(c, r) THEN "PluginError"
                   ELSE IF Encrypted(r) /\ unl.code # "ok" THEN unl.code
                   ELSE "ok"
            ok == InPlugin(c, r) /\ removed
        IN
        \/ /\ err # "ok"
           /\ Answer("DeleteCollectionSecret", app, err, c, NoData, via)
           /\ UNCHANGED <<secretRows, pdata, keys, unlocked>>
        \/ /\ err = "ok"
           /\ unlocked' = IF Encrypted(r) THEN unl.unl ELSE unlocked
           /\ keys' = IF Encrypted(r) \/ keys[c] # NoKey THEN keys
                      ELSE [keys EXCEPT ![c] = key]
           /\ pdata' = IF ok THEN [pdata EXCEPT ![<<c, s>>] = NoData] ELSE pdata
           /\ secretRows' = IF ok /\ deleted THEN secretRows \ {<<c, s>>}
                            ELSE secretRows
           /\ Answer("DeleteCollectionSecret", app,
                     IF ~ok THEN "PluginError"
                     ELSE IF deleted THEN "Succeeded" ELSE "DatabaseError",
                     c, NoData, via)
        /\ UNCHANGED <<collections, pcoll, ekey, timers>>

\* The checks of deleteCollectionSecret on the collection's row.
DeleteCollectionSecretCheck(app, c) == SetCollectionSecretCheck(app, c)

\* deleteCollectionSecret: check, then unlock or park; a parked request
\* keeps only the names, and the continuation reads the row again.
DeleteCollectionSecret ==
    \E rid \in ReqIds, app \in Apps, c \in AllNames, s \in SecretNames, ui \in UiModes,
      begun \in PluginOutcomes :
        LET err == DeleteCollectionSecretCheck(app, c)
            r == collections[c]
        IN
        /\ NewCall(rid)
        /\ \/ /\ err # "ok"
              /\ Answer("DeleteCollectionSecret", app, err, c, NoData, FALSE)
              /\ UNCHANGED <<store, pending, flows>>
           \/ /\ err = "ok"
              /\ RunsAtOnce(c, r)
              /\ DeleteCollectionSecretWithAuthenticationKey(app, c, s,
                                                             OpenKey(c, r), FALSE)
              /\ UNCHANGED <<pending, flows>>
           \/ /\ err = "ok"
              /\ ~RunsAtOnce(c, r)
              /\ UnlockOrPark("DeleteCollectionSecret", app, rid, c, r, ui, begun,
                    [type |-> "DeleteCollectionSecret", app |-> app, c |-> c,
                     s |-> s, v |-> CHOOSE v \in Values : TRUE, row |-> r,
                     ap |-> r.auth])

-----------------------------------------------------------------------------
\* timeoutRelockCollection: the single-shot timer of a collection fires and
\* the collection's cached key is forgotten.
TimeoutRelockCollection ==
    \E c \in timers :
        /\ keys' = [keys EXCEPT ![c] = NoKey]
        /\ timers' = timers \ {c}
        /\ UNCHANGED <<collections, secretRows, pcoll, pdata, ekey, unlocked,
                       pending, flows, last>>

(***************************************************************************)
(* authenticationCompleted: the plugin finishes the flow of a request with *)
(* a result and a key.  On success the pending request is taken and its   *)
(* continuation run with the key; on failure the plugin's result is       *)
(* returned and the pending request stays.  (Every flow has its pending   *)
(* request, so the UnknownError branches cannot be taken.)               *)
(***************************************************************************)
AuthenticationCompleted ==
    \E rid \in flows, ok \in BOOLEAN, key \in Keys :
        LET pr == pending[rid]
        IN
        /\ flows' = flows \ {rid}
        /\ \/ /\ ~ok
              /\ pr # NoPending
              /\ Answer(pr.type, pr.app, "AuthenticationError", pr.c, NoData, TRUE)
              /\ UNCHANGED <<store, pending>>
           \/ /\ ok
              /\ pending' = [pending EXCEPT ![rid] = NoPending]
              /\ \/ /\ pr.type = "CreateCustomLockCollection"
                    /\ CreateCustomLockCollectionWithAuthenticationKey(pr, key)
                    /\ UNCHANGED <<secretRows, pdata, timers>>
                 \/ /\ pr.type = "SetCollectionSecret"
                    /\ SetCollectionSecretWithAuthenticationKey(pr.app, pr.c, pr.s,
                                                 pr.v, pr.row, key, TRUE)
                 \/ /\ pr.type = "GetCollectionSecret"
                    /\ GetCollectionSecretWithAuthenticationKey(pr.app, pr.c, pr.s,
                                                 pr.row, key, TRUE)
                 \/ /\ pr.type = "DeleteCollectionSecret"
                    /\ DeleteCollectionSecretWithAuthenticationKey(pr.app, pr.c,
                                                 pr.s, key, TRUE)

Next ==
    \/ CreateDeviceLockCollection
    \/ CreateCustomLockCollection
    \/ DeleteCollection
    \/ SetCollectionSecret
    \/ GetCollectionSecret
    \/ DeleteCollectionSecret
    \/ TimeoutRelockCollection
    \/ AuthenticationCompleted

Spec == Init /\ [][Next]_vars

-----------------------------------------------------------------------------
(***************************************************************************)
(* Properties.                                                             *)
(***************************************************************************)

TypeOK ==
    /\ collections \in [AllNames -> Row \cup {NoRow}]
    /\ secretRows \subseteq Names \X SecretNames
    /\ pcoll \subseteq (StoragePlugins \cup EncryptedStoragePlugins) \X Names
    /\ pdata \in [Names \X SecretNames -> Data \cup {NoData}]
    /\ ekey \in [Names -> KeyVals]
    /\ unlocked \subseteq Names
    /\ keys \in [Names -> KeyVals]
    /\ timers \subseteq Names
    /\ pending \in [ReqIds -> Parked \cup {NoPending}]
    /\ flows \subseteq ReqIds
    /\ last \in Reply \cup {NoReply}

(***************************************************************************)
(* Master first: the daemon writes the Collections and Secrets rows before *)
(* the plugin and removes the plugin's copy before the rows, compensating *)
(* a failed plugin write of a new secret.  So every payload a plugin holds *)
(* has its Secrets row and lives in a plugin collection, and every plugin  *)
(* collection has a Collections row naming that plugin -- through failed *)
(* plugin calls, failed compensations and continuations that resume after *)
(* the collection changed.                                                 *)
(***************************************************************************)
NoOrphanPayload ==
    /\ \A p \in DOMAIN pdata :
          pdata[p] # NoData => /\ p \in secretRows
                               /\ \E h \in pcoll : h[2] = p[1]
    /\ \A h \in pcoll : Exists(h[2]) /\ collections[h[2]].storage = h[1]

(***************************************************************************)
(* deleteCollectionSecret removes a stored secret only for the owner of   *)
(* its collection, even when it resumes after authentication and the      *)
(* collection has meanwhile been deleted and created again by another     *)
(* application (the continuation reads the row again).                     *)
(***************************************************************************)
DeleteSecretOnlyByOwner ==
    [][\A p \in DOMAIN pdata :
          (/\ pdata[p] # NoData
           /\ pdata'[p] = NoData
           /\ last'.op = "DeleteCollectionSecret")
          => Exists(p[1]) /\ collections[p[1]].owner = last'.app]_vars

-----------------------------------------------------------------------------
(***************************************************************************)
(* What the design document says and the code does not do.  Each of these *)
(* is checked in a run of its own that expects it violated.                *)
(***************************************************************************)

(***************************************************************************)
(* Scenario 1 and open question 3: a free name can be given a collection    *)
(* whose storage and encryption plugin are one encrypted-storage plugin.  *)
(* The create handlers require that name to be registered as a storage and *)
(* as an encryption plugin as well (secretsrequestprocessor.cpp:253,256).  *)
(***************************************************************************)
EncryptedStoragePairAccepted ==
    \A ep \in EncryptedStoragePlugins, c \in Names :
        Exists(c) \/ CreatePluginCheck(c, ep, ep) = "ok"

(***************************************************************************)
(* Owner isolation: only the owner of a collection deletes it (and so its  *)
(* secrets).  deleteCollection reads the owner but never compares it with  *)
(* the caller.                                                             *)
(***************************************************************************)
OwnerOnlyDeletesCollection ==
    [][\A c \in Names :
          (Exists(c) /\ ~Exists(c)' /\ last'.op = "DeleteCollection")
          => last'.app = collections[c].owner]_vars

(***************************************************************************)
(* Owner isolation: every stored payload was written by the application    *)
(* that owns its collection.  A parked setCollectionSecret resumes with    *)
(* the row it read before parking, without reading it again.               *)
(***************************************************************************)
PayloadOfOwner ==
    \A p \in DOMAIN pdata :
        pdata[p] # NoData => Exists(p[1]) /\ pdata[p].w = collections[p[1]].owner

(***************************************************************************)
(* Dual write: a failed set of a new secret leaves no Secrets row.  With   *)
(* plugins and database that never fail, every Secrets row therefore has  *)
(* its payload.  The wrong-key returns of the continuation skip the        *)
(* compensation.                                                           *)
(***************************************************************************)
RowHasPayload ==
    \A p \in secretRows : pdata[p] # NoData

(***************************************************************************)
(* Relock: when the relock timer of a collection fires, the collection     *)
(* needs its key again.  timeoutRelockCollection only drops the cached key, *)
(* which an encrypted-storage collection never uses.                       *)
(***************************************************************************)
RelockOnTimeout ==
    [][\A c \in timers :
          (c \notin timers' /\ Exists(c) /\ Exists(c)') => ~Usable(c, collections[c])']_vars

(***************************************************************************)
(* Auth continuation: a request whose authentication failed is finished    *)
(* and leaves nothing parked.  authenticationCompleted only takes the      *)
(* pending request on success, so the argument vector (for a set, the      *)
(* secret) stays in m_pendingRequests.                                     *)
(***************************************************************************)
NoStaleContinuation ==
    \A i \in ReqIds : pending[i] # NoPending => i \in flows

(***************************************************************************)
(* A device-lock collection on a plain storage plugin keeps the device-lock *)
(* key cached while it exists: nothing but a relock timer, which only      *)
(* timeout-relock collections arm, removes it.  A parked getCollectionSecret*)
(* arms the timer with the unlock semantic it read, even after the name    *)
(* was deleted and created again as a device-lock collection.              *)
(***************************************************************************)
DeviceLockKeyKept ==
    \A c \in Names :
        (Exists(c) /\ collections[c].dl /\ ~Encrypted(collections[c])
           /\ InPlugin(c, collections[c]))
        => keys[c] = DeviceLockKey

(***************************************************************************)
(* An incorrect-authentication-key failure only answers a key the user     *)
(* supplied.  deleteCollectionSecretWithAuthenticationKey requires the     *)
(* device-lock key for a device-lock collection, and the handler passes an *)
(* empty key when the encrypted-storage plugin is already unlocked.        *)
(***************************************************************************)
KeyErrorOnlyForSuppliedKey ==
    (last # NoReply /\ last.code = "IncorrectAuthenticationKeyError") => last.viaAuth
=============================================================================
