--------------------------- MODULE MCBoothPrinter ---------------------------
\* One job being written and one behind it, without end.
EXTENDS BoothPrinter

=============================================================================
