--------------------------- MODULE VersionedCatalog ---------------------------
(***************************************************************************)
(* What the question table promises to whoever reads it, whatever the      *)
(* interleaving of the requests that write it: a row appears once, at      *)
(* version 1; every change moves its version by exactly one; a soft delete *)
(* is final, takes the row out of the public catalogue, and freezes its    *)
(* content.  QuestionStore is shown to implement this module.              *)
(***************************************************************************)
EXTENDS Naturals

CONSTANTS Ids,      \* question ids
          Bodies    \* question contents, told apart by who wrote them

VARIABLE rows       \* rows[i]: the row with id i; version 0 says there is none

RowsAt(versions) == [version : versions, enabled : BOOLEAN, published : BOOLEAN,
                     deleted : BOOLEAN, body : Bodies]

CatalogInit == rows \in [Ids -> {row \in RowsAt({0, 1}) : ~row.deleted}]

\* A new row: version 1, not deleted.
Insert(i) ==
  /\ rows[i].version = 0
  /\ \E row \in RowsAt({1}) : /\ ~row.deleted
                              /\ rows' = [rows EXCEPT ![i] = row]

\* A change of a row: the next version.  A deleted row stays deleted and
\* keeps its content (its two flags may still change).
Change(i) ==
  /\ rows[i].version > 0
  /\ \E row \in RowsAt({rows[i].version + 1}) :
       /\ row.deleted = rows[i].deleted
       /\ rows[i].deleted => row.body = rows[i].body
       /\ rows' = [rows EXCEPT ![i] = row]

\* A soft delete, at most once per row.
SoftDelete(i) ==
  /\ rows[i].version > 0
  /\ ~rows[i].deleted
  /\ LET row == rows[i]
     IN rows' = [rows EXCEPT ![i] =
                  [row EXCEPT !.version = row.version + 1, !.deleted = TRUE,
                              !.enabled = FALSE, !.published = FALSE]]

CatalogNext == \E i \in Ids : Insert(i) \/ Change(i) \/ SoftDelete(i)

CatalogSpec == CatalogInit /\ [][CatalogNext]_rows
===============================================================================
