---------------------------- MODULE MCBoothUpdate ----------------------------
\* Three releases, the second of which migrates.  One copy is kept, so a
\* later update drops the one before it.
EXTENDS BoothUpdate

MCSchema == [r \in Releases |-> IF r = 1 THEN 0 ELSE 1]

=============================================================================
