---------------------------- MODULE MCMonitorStream ----------------------------
EXTENDS MonitorStream
=============================================================================
