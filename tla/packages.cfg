SPECIFICATION MCSpec
CONSTANTS
    Jobs <- ScaffoldJobs
    Names = {"f", "g"}
    Uses <- FUsesG
    MaxJobs = 2
    MaxRetries = 1
    SourceFiles <- Sheets
    Base <- SheetName
    Versions <- SheetTexts
    Requests <- Asked
    All = All
    Concurrency = {"threading"}
    Devices = {"usb"}
    Stdlib = {"threading", "json"}
    Family <- OwnFamily
    HasInputs = {"f", "g"}
    Scans <- Telemetry
    MaxNodes = 6
    MaxFamily = 2
    MinGroup = 2
    HotName <- HotNames
    MaxRuns = 2
    MaxEdits = 1
    MaxMesh = 7
    Fns <- HotFunctions
    Ident <- SafeIdent
    LegacyName <- LegacyNames
    Dirs <- TemplateDirs
    Registry <- Registries
    Blueprints <- ProjectSets
    MaxTexts = 2
    MaxVersion = 1
    Stems <- Sources
    Idents <- Definitions
    Classes = {"G"}
    Lower <- LowerCase
    Refers <- Mentioned
    Hinted = {"f"}
    Possible <- MayHold
    Bodies = {1, 2}
    MaxBuilds = 2
    MaxLost = 1
    UserLines <- UsersLines
    Generated <- TwoTexts
    None = none
    Context = 1
    MaxLines = 8
    MaxChanges <- Changes
    Conditions <- OverlayConditions
CHECK_DEADLOCK FALSE
INVARIANTS PackageImports PromotionIsHonest RecipesAreVetted DefinedOnce
PROPERTIES OverlaySurvivesRebuild MergesKeepEdits
