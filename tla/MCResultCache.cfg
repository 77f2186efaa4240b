SPECIFICATION Spec
CONSTANTS
  Windows = {w1, w2}
  Counts = {c1}
  Sorts = {"asc", "desc"}
  Filters = {"all", "some"}
  FirstView <- MCFirstView
  Sizes = {3, 11}
  Offsets = {0, 3, 8}
  Limits = {1, 7}
  PageSize = 2
  Margin = 1
  MaxPages = 4
  Unknown = Unknown
INVARIANTS
  CacheTypeOK
  PagesAreExact
  WindowIsExact
  FillIsComplete
  VisibleSupportsScroll
  TotalIsOfFilter
  HasMoreIsExact
  CacheBounded
