----------------------------- MODULE MCStartUp -----------------------------
(* Two containers and an operator, for TLC.                                *)
EXTENDS StartUpProperties

CONSTANTS c1, c2, operator

Setting(migrate, seed, vectors) ==
  [auto_migrate |-> migrate, seed_on_start |-> seed, pgvector |-> vectors]

\* The compose file's settings, the same with pgvector, an API that prepares
\* nothing but its vectors, and one that seeds what somebody else migrates.
MCConfigs ==
  {Setting(TRUE, TRUE, FALSE), Setting(TRUE, TRUE, TRUE), Setting(FALSE, FALSE, TRUE),
   Setting(FALSE, TRUE, FALSE)}

Base(objects, head, rows) == [schema |-> objects, version |-> head, seeds |-> rows]

\* A new database, one an earlier release left at revision 5, one at the head
\* with data, and one that only payops-seed has prepared.
MCDatabases ==
  {Base({}, 0, 0),
   Base(VersionTable \cup Created(5), 5, 1),
   Base(Objects, Head, 1),
   Base(WithTheirColumns(Metadata), 0, 1)}

\* Nothing to read at first, or everything.
MCCorpora == {{}, Documents}

=============================================================================
