SPECIFICATION Spec
CONSTANTS
    Slugs = {"mstr", "crwv"}
    LegacySlug = "mstr"
    HandSlugs = {"other"}
    NoFile = NoFile
    MaxRuns = 3
    MaxDryRuns = 1
INVARIANTS FilesMatchRegistry
PROPERTIES ListsOnlyWired
CHECK_DEADLOCK FALSE
