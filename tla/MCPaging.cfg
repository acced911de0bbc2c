SPECIFICATION Spec
CONSTANTS
  Task = {0, 1, 2}
  init_task = 0
  Page <- AllPages
  KernelArea <- LowPages
  Images <- AllImages
  ENTRIES = 2
  PAGE_SIZE = 3
  NULL = NULL
INVARIANTS
  PagesConserved
  DirectoryLive
  SpacesWellFormed
  CollisionsFromImages
  ImageLoaded
