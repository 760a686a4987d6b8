----------------------- MODULE MCSecretsCollections -----------------------
(***************************************************************************)
(* A small instance of SecretsCollections: two applications, one           *)
(* collection name, one secret, two values and two user keys.  The plugin *)
(* registry is the one loadPlugins builds from one plugin of each kind:   *)
(* a storage plugin S, an encryption plugin O, an encrypted-storage       *)
(* plugin E, the system authentication plugin Sys (the default) and an    *)
(* in-process one InApp.                                                   *)
(***************************************************************************)
EXTENDS SecretsCollections, TLC

CONSTANTS a1, a2, c1, s1, v1, v2, k1, k2, S, O, E, Sys, InApp, Bogus

MCApps == {a1, a2}
MCNames == {c1}
MCSecretNames == {s1}
MCValues == {v1, v2}
MCKeys == {k1, k2}
MCStoragePlugins == {S}
MCEncryptionPlugins == {O}
MCEncryptedStoragePlugins == {E}
MCAuthPlugins == {Sys, InApp}
MCAppSpecificAuthPlugins == {InApp}
MCOneValue == {v1}
MCOneAuthPlugin == {Sys}
MCNoAuthPlugins == {}
\* Without an application-specific plugin, in-process interaction and the
\* service address change nothing.
MCUiModes == {"Prevent", "System"}
MCUiAddresses == {FALSE}
\* Clients pass plugin names freely: a valid plain pair, the encrypted-storage
\* plugin for both, and a storage name no plugin has.
MCPluginChoices == {<<S, O>>, <<E, E>>, <<Bogus, O>>}

\* The registry loadPlugins builds when the encrypted-storage plugin's
\* library also registers it under the storage and encryption interfaces
\* (the only way its collections can be created, see CreatePluginCheck).
MCTripleStoragePlugins == {S, E}
MCTripleEncryptionPlugins == {O, E}

\* Applications, values and user keys are interchangeable: no handler
\* compares one with a constant.
MCSymmetry == Permutations(MCApps) \cup Permutations(MCValues) \cup Permutations(MCKeys)

\* The state without the last reply and without the entries of
\* m_pendingRequests whose flow has ended: no action reads either, so the
\* next states of two states that agree here agree here too.
MCView == <<collections, secretRows, pcoll, pdata, ekey, unlocked, keys, timers,
            [i \in flows \cap DOMAIN pending |-> pending[i]], flows>>
=============================================================================
