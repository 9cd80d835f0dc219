SPECIFICATION FairSpec
CONSTANTS
    Unset = Unset
    Blank = Blank
    Malformed = Malformed
    NoURL = NoURL
    MaxPasswordBytes = 2
    Programs = {"server", "migrate", "verifier"}
    BaseSettings <- SomeBase
    OIDCSettings <- SomeOIDC
    DatabaseSettings <- SomeDatabases
    SourceSets <- SomeSources
    Links <- SomeLinks
    Files <- SomeFiles
    Cards <- SomeCards
CHECK_DEADLOCK FALSE
INVARIANTS
    TypeOK
    ServedAsConfigured
    OneCredential
    StaysOnOrigin
PROPERTIES
    StartupComesToRest
