--------------------------- MODULE MCIndexMigration ---------------------------
(* TLC instances of IndexMigration.  Seeds are interchangeable.              *)
EXTENDS IndexMigration, MCGenerations

SeedSymmetry == Permutations(Seeds)

=============================================================================
