SPECIFICATION Spec
CONSTANTS
  None = None
  Name <- mcNames
  Effect <- mcEffects
  Layout <- mcLayouts
  MaxEvents = 6
  MaxRuns = 3
  MaxCached = 1
  Programs <- mcPrivate
  Elsewhere <- mcExporter
INVARIANT
  LinksAlike
