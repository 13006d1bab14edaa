\* The cap of a source and of the run is within reach.
CONSTANTS
  Postings <- MCPostings
  Sources <- MCSources
  SourceOf <- MCSourceOf
  Resemblance <- MCResemblance
  BoardSources <- MCBoardSources
  Thin <- MCThin
  Unreadable <- MCUnreadable
  NoPosting = NoPosting
  Parts = 2
  Retries = 1
  Cap = 3
  Share = 2
  Details = 1

SPECIFICATION FairSpec
\* The collection ends.
CHECK_DEADLOCK FALSE

INVARIANTS
  DiscoveryTypeOK
  OutcomesAreHonest
  NoOpeningDropped

PROPERTIES
  CollectionEnds
