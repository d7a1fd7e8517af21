CONSTANTS
  alert_sh = alert_sh
  page_sh = page_sh
  qA = qA
  qB = qB
  qC = qC
  row1 = row1
  row2 = row2
  Checks <- MCChecks
  QueryDef <- MCQueryDef
  Parameters <- MCParameters
  QueriesTemplate <- MCQueriesTemplate
  Rows <- MCRows
  BigQueryMayFail = TRUE
  ScriptMayHang = TRUE
SPECIFICATION Spec
INVARIANTS TypeOK AllRowsReported ReportedBeforeRaise
PROPERTIES Termination
