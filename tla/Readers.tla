------------------------------ MODULE Readers ------------------------------
(***************************************************************************)
(* A reader of a table that grows: a client of the reading tools           *)
(* (ReadTools), or one that reads the pages of read_verified_snapshot      *)
(* (SnapshotPaging).  Readers take no lock that a writer waits for and     *)
(* change nothing, so two of them do not disturb each other and the model  *)
(* has one of either kind.                                                 *)
(***************************************************************************)
EXTENDS SnapshotPaging, ReadTools

VARIABLE reader   \* "tools" or "pages"

readerVars == <<pagingVars, toolVars, reader>>

ReadersInit ==
  /\ reader \in {"tools", "pages"}
  /\ ToolsInit
  /\ PagingInit
  /\ reader = "tools" => length = 0 /\ after = None

Pages == reader = "pages" /\ PagingNext /\ UNCHANGED <<toolVars, reader>>

Tools == reader = "tools" /\ ToolsNext /\ UNCHANGED <<pagingVars, reader>>

\* The client goes on asking for pages; that a call fails is left to chance.
NextPage ==
  /\ reader = "pages"
  /\ ReadPage \/ PageConflict
  /\ UNCHANGED <<toolVars, reader>>

ReadersSpec ==
  ReadersInit /\ [][Pages \/ Tools]_readerVars /\ WF_readerVars(NextPage)

\* The client that reads pages reaches the end, a conflict or a failure once
\* others stop appending, which they do at MaxLength: no page is asked for
\* again and again.
PagingEnds == <>(reader = "pages" => phase \in {"done", "conflict", "failed"})

=============================================================================
