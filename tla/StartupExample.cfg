SPECIFICATION Spec
CONSTANTS
    Unset = Unset
    Blank = Blank
    Malformed = Malformed
    NoURL = NoURL
    MaxPasswordBytes = 2
    Programs = {"server"}
    BaseSettings <- ExampleBase
    OIDCSettings <- ExampleOIDC
    DatabaseSettings <- ExampleDatabase
    SourceSets = {{}}
    Links = {}
    Files = {}
    Cards <- ExampleCards
CHECK_DEADLOCK FALSE
INVARIANTS
    ExampleStarts
