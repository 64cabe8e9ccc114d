INIT RecordsInit
NEXT RecordsNext
CONSTANTS
  None = None
  Lookup <- MCLookup
  Page <- MCPage
  MaxRetries = 1
  Record <- MCRecord
  MaxDocuments = 2
  Inputs <- MCInputs
  Aliases <- MCAliases
  LegalSuffixes <- MCLegalSuffixes
  Unfinished = {5}
  Evidence = {1, 2, 3, 4}
  Files <- MCFiles
  Contents <- MCContents
  Scope <- MCScope
  Stored <- MCStored
  Incomplete = {3003}
  Universes <- MCUniverses
  Known <- MCKnown
  MaxChecks = 1
  Drafts <- MCDrafts
  Fold <- MCFold
  UsableTerms = {"net", "NET", "llm", "c++"}
  SearchableTerms = {"net", "NET", "llm"}
  Slug <- MCSlug
  Offers <- MCOffers
  Edits <- MCEdits
  SchemeEntries <- MCSchemeEntries
  Broad = {"G"}
  MaxSegments = 3
  MaxSynonyms = 1
  MaxCodes = 2
  MaxVersions = 3
  MaxDrafts = 1
INVARIANTS StatusIsJustified StoredIsReliable LoadsBack
INVARIANTS RootsAreComponents PlanIsConserved EntitiesAreMerged
INVARIANTS CountsAreBounds RenderingsAgree RecallIsHonest
INVARIANTS DraftAccountsForAll CodesComeBack
CHECK_DEADLOCK FALSE
