------------------------ MODULE MCPrinterMaintenance ------------------------
\* Delays of 2, 4 and 2 ticks: an outage can change kind before and after
\* either delay.
EXTENDS PrinterMaintenance

=============================================================================
