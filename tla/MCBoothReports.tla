---------------------------- MODULE MCBoothReports ----------------------------
\* The graces and the silence keep their order, in ticks of the interval.
EXTENDS BoothReports

=============================================================================
