CONSTANTS
  alert_sh = alert_sh
  page_sh = page_sh
  qA = qA
  qB = qB
  qC = qC
  rowPlain = rowPlain
  rowQuoted = rowQuoted
  Checks <- MCChecks
  QueryDef <- MCQueryDef
  Parameters <- MCParameters
  QueriesTemplate <- MCQueriesTemplate
  Rows <- MCRows
  QuotedRows <- MCQuotedRows
  ScriptMayFail = TRUE
  BigQueryMayFail = FALSE
  ScriptMayHang = FALSE
  ConfigMayFail = FALSE
SPECIFICATION Spec
INVARIANTS AlertsDelivered
