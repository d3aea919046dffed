------------------------ MODULE MCIndexMigrationFaults ------------------------
(* TLC instances of IndexMigrationFaults.                                     *)
EXTENDS IndexMigrationFaults, MCGenerations

SeedSymmetry == Permutations(Seeds)

=============================================================================
