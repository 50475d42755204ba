SPECIFICATION FairSpec
CONSTANTS
  None = None
  Sizes <- TwoSizes
  StartSize <- Flat
  MaxWide = 4
  MaxCommands = 2
INVARIANTS
  TypeOK
  OffScreenIsSaved
  SizesAgree
PROPERTIES
  GlyphsStayWhole
  ExitSeen
ACTION_CONSTRAINT SavesAtLineStart
CONSTRAINTS OneAtATime GlyphsWhole SessionOrGlyphs
