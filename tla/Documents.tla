------------------------------ MODULE Documents ------------------------------
(***************************************************************************)
(* Canonical records and the tables they are kept in                       *)
(* (src/patsquire_plr/domain/patent.py, db/documents.py, and the document  *)
(* tables of db/models.py).                                                *)
(*                                                                         *)
(* A record has a value or a reason for every field.  Its lists are rows   *)
(* of child tables, one per entry; an empty list has no row, and only the  *)
(* record's "missing" tells it from a list that the source did not give.   *)
(* The tables are append-only and shared by all documents.                 *)
(***************************************************************************)
EXTENDS Naturals, Sequences, FiniteSets, Absent

CONSTANTS
  Record,        \* records an adapter may try to make
  MaxDocuments   \* bound

Lists == {"applicants", "inventors", "priorities", "cpc", "ipc", "backward_citations",
          "family_members", "forward_citations"}
Scalars == {"title", "filing_date", "publication_date", "legal_status"}
Fields == Lists \cup Scalars

\* A record, valid or not, has every field, and a list that is there is a sequence.
ASSUME RecordAssumption ==
  \A d \in Record :
    /\ d = [publication |-> d.publication, value |-> d.value, missing |-> d.missing]
    /\ d.value = [f \in Fields |-> d.value[f]]
    /\ \A f \in Lists : d.value[f] # None => d.value[f] \in Seq({d.value[f][i] : i \in DOMAIN d.value[f]})

VARIABLES
  documentRows,  \* patent_document
  childRows,     \* document_party (by role), document_classification (by scheme),
                 \* _priority, _citation, _family_member, _forward_citation
  made           \* the records as they were stored, by document id

documentVars == <<documentRows, childRows, made>>

DocumentInit == documentRows = {} /\ childRows = {} /\ made = <<>>

-----------------------------------------------------------------------------
(* domain/patent.py *)

\* A value or a reason, never both and never neither.
Explained(d, f) == (d.value[f] = None) <=> f \in d.missing

\* The family is of other publications, each once; publication does not precede filing.
Valid(d) ==
  /\ \A f \in Fields : Explained(d, f)
  /\ LET family == d.value["family_members"]
     IN family # None =>
          \A i \in DOMAIN family : /\ family[i] # d.publication
                                   /\ \A j \in DOMAIN family : family[i] = family[j] => i = j
  /\ LET filed == d.value["filing_date"]
         published == d.value["publication_date"]
     IN filed # None /\ published # None => filed <= published

-----------------------------------------------------------------------------
(* db/documents.py *)

\* The row of a record, and its child rows: each entry at its position.
DocumentRow(id, d) ==
  [id |-> id, publication |-> d.publication, missing |-> d.missing,
   value |-> [f \in Scalars |-> d.value[f]]]
ListRow(id, f, i, entry) == [document |-> id, list |-> f, value |-> entry, ordinal |-> i]
ListRows(id, d) ==
  UNION {{ListRow(id, f, i, d.value[f][i]) : i \in DOMAIN d.value[f]} :
           f \in {g \in Lists : d.value[g] # None}}

\* store_document.
StoreDocument(d) ==
  LET id == Len(made) + 1
  IN /\ Valid(d) /\ id <= MaxDocuments
     /\ documentRows' = documentRows \cup {DocumentRow(id, d)}
     /\ childRows' = childRows \cup ListRows(id, d)
     /\ made' = Append(made, d)

\* The entries of a list in the order of their ordinals.
Entries(id, f) ==
  LET rows == {r \in childRows : r.document = id /\ r.list = f}
      at(i) == CHOOSE r \in rows : Cardinality({q \in rows : q.ordinal < r.ordinal}) = i - 1
  IN [i \in 1..Cardinality(rows) |-> at(i).value]

\* Mutation: a list without rows is one that the source did not give.
Load_NoEmpty(id) ==
  LET row == CHOOSE r \in documentRows : r.id = id
  IN [publication |-> row.publication, missing |-> row.missing,
      value |-> [f \in Fields |-> IF f \in Scalars THEN row.value[f]
                                  ELSE IF Entries(id, f) # <<>> THEN Entries(id, f) ELSE None]]

\* load_document: a list is present unless "missing" names it.
Load(id) ==
  LET row == CHOOSE r \in documentRows : r.id = id
  IN [publication |-> row.publication, missing |-> row.missing,
      value |-> [f \in Fields |-> IF f \in Scalars THEN row.value[f]
                                  ELSE IF f \notin row.missing THEN Entries(id, f) ELSE None]]

DocumentNext == \E d \in Record : StoreDocument(d)

DocumentSpec == DocumentInit /\ [][DocumentNext]_documentVars

-----------------------------------------------------------------------------
(* Properties *)

\* Every document loads back as it was made, with empty lists, repeats and order, whatever
\* else is in the tables, and is still a valid record (store_document and load_document).
LoadsBack == \A id \in DOMAIN made : Load(id) = made[id] /\ Valid(Load(id))

=============================================================================
