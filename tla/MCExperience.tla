---------------------------- MODULE MCExperience ----------------------------
\* One page: a countdown of two, two print attempts, two visit ids and a ticket.
EXTENDS Experience

=============================================================================
