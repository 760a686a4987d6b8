CONSTANTS
    a1 = a1  a2 = a2  c1 = c1  s1 = s1  v1 = v1  v2 = v2  k1 = k1  k2 = k2
    S = S  O = O  E = E  Sys = Sys  InApp = InApp  Bogus = Bogus
    Standalone = Standalone  DeviceLockKey = DeviceLockKey  NoKey = NoKey
    Garbage = Garbage  DefaultAuthPlugin = Sys
    Apps <- MCApps
    Names <- MCNames
    SecretNames <- MCSecretNames
    Values <- MCOneValue
    Keys <- MCKeys
    StoragePlugins <- MCTripleStoragePlugins
    EncryptionPlugins <- MCTripleEncryptionPlugins
    EncryptedStoragePlugins <- MCEncryptedStoragePlugins
    AuthPlugins <- MCOneAuthPlugin
    AppSpecificAuthPlugins <- MCNoAuthPlugins
    PluginChoices <- MCPluginChoices
    MaxRequests = 2
    UiModes <- MCUiModes
    UiAddresses <- MCUiAddresses
    PluginCanFail = FALSE
    DbCanFail = FALSE
SPECIFICATION Spec
SYMMETRY MCSymmetry
PROPERTY OwnerOnlyDeletesCollection
CHECK_DEADLOCK FALSE
