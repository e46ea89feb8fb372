CONSTANTS
  Mentions <- MentionsConst
  Book <- Books
  SampleRows = 2
  ColorRows = 1000
  ColorCols = 50
  HeaderRows = 19
  ListLimit = 2
SPECIFICATION ReadingSpec
INVARIANTS
  CountsAgree
  RegionsTile
  ChunksCoverWorkbook
  SectionsTile
CHECK_DEADLOCK FALSE
