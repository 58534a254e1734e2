CONSTANTS
    Tokens <- TheTokens
    Digits <- TheDigits
    BaseNames <- PlainNames
    Modules <- TheModules
    ArgLists <- PlainArgs
    MountPath <- Mount
    KeyPaths <- TheKeys
    Numbers <- TheNumbers
    Password <- Typed
    MaxDepth = 2
    MaxPrefixes = 2

SPECIFICATION Spec

INVARIANTS
    NamesRoundTrip
    ArgsReadBack
    HiddenIffPrefixed
    RecognisedIffPrefixed
    VersionsOfTheFileOnly
    
    EncryptionUsagesObeyed
    NamedKeyIsUsed
    VersioningUsagesObeyed
