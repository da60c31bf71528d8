SPECIFICATION Spec
CONSTANTS
  None = None
  NoCookie = NoCookie
  Unwritten = Unwritten
  Files = {f1, fHidden}
  Targets = {f1}
  WidgetSets = {{"toast"}, {"sidebar"}, {"carousel", "chart"}}
  MaxChanges = 2
  TOAST_LIMIT = 1
  MaxSafeInteger = 1000
  MaxToasts = 2
  MaxSlides = 2
  ChartProps <- McChartProps
INVARIANT TypeOK
INVARIANT NoNoticeIsLost
INVARIANT PreviewIsOfItsModules
INVARIANT WidgetPromises
INVARIANT ModuleTellsDirectory
