CONSTANTS
    MaxReports = 2
    MaxUpdates = 1
    MaxFaults = 1
    COAP_MAX_RETRANSMIT = 1
    STORING_CNT = 1
    MAX_BUFFER_REPORT_CNT = 2
SPECIFICATION ReportSpec
INVARIANT ReportTypeOK
INVARIANT ReportsConserved
INVARIANT PendingIsAwaited
PROPERTY EveryReportEnds
