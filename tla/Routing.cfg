SPECIFICATION Spec
CONSTANTS
    Names = {1, 2, 3}
    Entries <- MCEntries
    Strategies <- MCStrategies
    Uploads <- MCUploads
    ExtMap <- MCExtMap
INVARIANTS
    PickIsFirstByName
    FacadeFiltered
    KnownTypeUsed
