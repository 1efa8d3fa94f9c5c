----------------------------- MODULE MCTraffic ------------------------------
EXTENDS Traffic

\* Nothing but the topic depends on the type of a report.
MCReportType == {"TRAIN_LOCATION"}
=============================================================================
