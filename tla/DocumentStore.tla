--------------------------- MODULE DocumentStore ---------------------------
(***************************************************************************)
(* The documents of one tenant: rows in the database, bytes on the disk    *)
(* (app/services/documents.py, app/storage/local.py).  An upload looks for *)
(* its parent and for a duplicate, saves the bytes under their hash, and   *)
(* then inserts the row; a delete commits the row's removal, and then      *)
(* unlinks the bytes.  Nothing holds the two stores together: requests     *)
(* interleave between their steps and a process may die after any of them. *)
(* The rows a document owns elsewhere go in the transaction that deletes   *)
(* it; they are the business of Ingestion.  Validation of what is uploaded *)
(* (size, declared and sniffed type) changes no state and is left out.     *)
(***************************************************************************)
EXTENDS Naturals, FiniteSets

CONSTANTS Documents,   \* ids the server may generate
          Shas,        \* contents, by their hash
          Requests,    \* requests in flight, each in a process that may die
          None

ASSUME StoreAssumption == None \notin Documents \cup Shas

VARIABLES
  rows,      \* documents whose row is in the table
  used,      \* ids generated so far
  sha,       \* each row's content hash
  amends,    \* each row's parent, or None
  files,     \* contents on the disk
  pc,        \* where each request is
  doc,       \* the document it inserted or is deleting
  content,   \* the content it uploads, or of the document it deletes
  parent,    \* the parent it was given
  audit      \* audit_log: <<action, document>>

docVars == <<rows, used, sha, amends>>
reqVars == <<pc, doc, content, parent>>
vars    == <<docVars, files, reqVars, audit>>

PC == {"none", "saving", "inserting", "uploaded",
       "checked", "deleting", "unlinking", "unlinked"}

TypeOK ==
  /\ rows \subseteq used
  /\ used \subseteq Documents
  /\ sha \in [Documents -> Shas \cup {None}]
  /\ amends \in [Documents -> Documents \cup {None}]
  /\ files \subseteq Shas
  /\ pc \in [Requests -> PC]
  /\ doc \in [Requests -> Documents \cup {None}]
  /\ content \in [Requests -> Shas \cup {None}]
  /\ parent \in [Requests -> Documents \cup {None}]
  /\ audit \subseteq {"document.upload", "document.delete"} \X used

Init ==
  /\ rows = {}
  /\ used = {}
  /\ sha = [d \in Documents |-> None]
  /\ amends = [d \in Documents |-> None]
  /\ files = {}
  /\ pc = [r \in Requests |-> "none"]
  /\ doc = [r \in Requests |-> None]
  /\ content = [r \in Requests |-> None]
  /\ parent = [r \in Requests |-> None]
  /\ audit = {}

Has(s)          == \E d \in rows : sha[d] = s
HasAmendments(d) == \E a \in rows : amends[a] = d
Move(r, to)     == pc' = [pc EXCEPT ![r] = to]

\* The request is answered, or its process died.
Answer(r) ==
  /\ pc' = [pc EXCEPT ![r] = "none"]
  /\ doc' = [doc EXCEPT ![r] = None]
  /\ content' = [content EXCEPT ![r] = None]
  /\ parent' = [parent EXCEPT ![r] = None]
-----------------------------------------------------------------------------
(* upload_document                                                         *)

\* find_by_id of the parent and find_by_sha256; 404 and 409 change nothing.
StartUpload(r, s, p) ==
  /\ pc[r] = "none"
  /\ p \in rows \cup {None}
  /\ ~Has(s)
  /\ Move(r, "saving")
  /\ content' = [content EXCEPT ![r] = s]
  /\ parent' = [parent EXCEPT ![r] = p]
  /\ UNCHANGED <<docVars, files, doc, audit>>

\* save_document: os.replace puts the complete file in place at once.
Save(r) ==
  /\ pc[r] = "saving"
  /\ files' = files \cup {content[r]}
  /\ Move(r, "inserting")
  /\ UNCHANGED <<docVars, doc, content, parent, audit>>

\* Mutant of Insert: the new row takes an id that may have been used before.
InsertReusingId(r, d) ==
  /\ pc[r] = "inserting"
  /\ d \in Documents \ rows
  /\ ~Has(content[r])
  /\ parent[r] \in rows \cup {None}
  /\ rows' = rows \cup {d}
  /\ sha' = [sha EXCEPT ![d] = content[r]]
  /\ amends' = [amends EXCEPT ![d] = parent[r]]
  /\ doc' = [doc EXCEPT ![r] = d]
  /\ Move(r, "uploaded")
  /\ UNCHANGED <<used, files, content, parent, audit>>

\* create(), under uq_documents_tenant_sha256 and the parent's foreign key.
Insert(r, d) ==
  /\ pc[r] = "inserting"
  /\ d \in Documents \ used
  /\ ~Has(content[r])
  /\ parent[r] \in rows \cup {None}
  /\ rows' = rows \cup {d}
  /\ used' = used \cup {d}
  /\ sha' = [sha EXCEPT ![d] = content[r]]
  /\ amends' = [amends EXCEPT ![d] = parent[r]]
  /\ doc' = [doc EXCEPT ![r] = d]
  /\ Move(r, "uploaded")
  /\ UNCHANGED <<files, content, parent, audit>>

\* Mutant of InsertConflicts: the losing upload cleans up after itself.
InsertConflictsTidily(r) ==
  /\ pc[r] = "inserting"
  /\ Has(content[r]) \/ parent[r] \notin rows \cup {None}
  /\ files' = files \ {content[r]}
  /\ Answer(r)
  /\ UNCHANGED <<docVars, audit>>

\* IntegrityError: "The stored file is content-addressed, so leaving it is
\* correct."
InsertConflicts(r) ==
  /\ pc[r] = "inserting"
  /\ Has(content[r]) \/ parent[r] \notin rows \cup {None}
  /\ Answer(r)
  /\ UNCHANGED <<docVars, files, audit>>

AuditUpload(r) ==
  /\ pc[r] = "uploaded"
  /\ audit' = audit \cup {<<"document.upload", doc[r]>>}
  /\ Answer(r)
  /\ UNCHANGED <<docVars, files>>
-----------------------------------------------------------------------------
(* delete_document                                                         *)

\* get_document, in a session that keeps the object it loaded.
StartDelete(r, d) ==
  /\ pc[r] = "none"
  /\ d \in rows
  /\ doc' = [doc EXCEPT ![r] = d]
  /\ content' = [content EXCEPT ![r] = sha[d]]
  /\ Move(r, "checked")
  /\ UNCHANGED <<docVars, files, parent, audit>>

\* Mutant of CheckAmendments: the bytes are unlinked before the row is deleted.
CheckAmendmentsUnlinkFirst(r) ==
  /\ pc[r] = "checked"
  /\ IF HasAmendments(doc[r])
     THEN Answer(r)
     ELSE Move(r, "unlinking") /\ UNCHANGED <<doc, content, parent>>
  /\ UNCHANGED <<docVars, files, audit>>

\* has_amendments: 409 when there are any.
CheckAmendments(r) ==
  /\ pc[r] = "checked"
  /\ IF HasAmendments(doc[r])
     THEN Answer(r)
     ELSE Move(r, "deleting") /\ UNCHANGED <<doc, content, parent>>
  /\ UNCHANGED <<docVars, files, audit>>

\* Mutant of DeleteRow: the pre-check is trusted, there is no RESTRICT.
DeleteRowUnrestricted(r) ==
  /\ pc[r] = "deleting"
  /\ rows' = rows \ {doc[r]}
  /\ Move(r, "unlinking")
  /\ UNCHANGED <<used, sha, amends, files, doc, content, parent, audit>>

\* The sweep's commit.  When another request deleted the row first, the DELETE
\* matches nothing, which SQLAlchemy only warns about.
DeleteRow(r) ==
  /\ pc[r] = "deleting"
  /\ ~HasAmendments(doc[r])
  /\ rows' = rows \ {doc[r]}
  /\ Move(r, "unlinking")
  /\ UNCHANGED <<used, sha, amends, files, doc, content, parent, audit>>

\* Mutant of DeleteConflicts: the refused delete is audited like any other.
DeleteConflictsAudited(r) ==
  /\ pc[r] = "deleting"
  /\ HasAmendments(doc[r])
  /\ audit' = audit \cup {<<"document.delete", doc[r]>>}
  /\ Answer(r)
  /\ UNCHANGED <<docVars, files>>

\* RESTRICT: an amendment landed after the pre-check, 409.
DeleteConflicts(r) ==
  /\ pc[r] = "deleting"
  /\ HasAmendments(doc[r])
  /\ Answer(r)
  /\ UNCHANGED <<docVars, files, audit>>

\* storage delete_document: a file already gone is fine.
Unlink(r) ==
  /\ pc[r] = "unlinking"
  /\ files' = files \ {content[r]}
  /\ Move(r, "unlinked")
  /\ UNCHANGED <<docVars, doc, content, parent, audit>>

AuditDelete(r) ==
  /\ pc[r] = "unlinked"
  /\ audit' = audit \cup {<<"document.delete", doc[r]>>}
  /\ Answer(r)
  /\ UNCHANGED <<docVars, files>>

\* The API process dies, or the request is cancelled.
Crash(r) ==
  /\ pc[r] # "none"
  /\ Answer(r)
  /\ UNCHANGED <<docVars, files, audit>>
-----------------------------------------------------------------------------
Next == \E r \in Requests :
  \/ \E s \in Shas, p \in Documents \cup {None} : StartUpload(r, s, p)
  \/ Save(r)
  \/ \E d \in Documents : Insert(r, d) \/ StartDelete(r, d)
  \/ InsertConflicts(r) \/ AuditUpload(r)
  \/ CheckAmendments(r) \/ DeleteRow(r) \/ DeleteConflicts(r)
  \/ Unlink(r) \/ AuditDelete(r)
  \/ Crash(r)

Spec == Init /\ [][Next]_vars
-----------------------------------------------------------------------------
\* A parent with surviving amendments stays: the checks before the insert and
\* before the delete both read what may change under them, the foreign key
\* settles every race.
NoDanglingAmendment == \A d \in rows : amends[d] \in rows \cup {None}

\* An upload has a content in hand; what a request is deleting had a row once,
\* and has none by the time its bytes go.
RequestsInHand ==
  \A r \in Requests :
    /\ pc[r] \in {"saving", "inserting"} => content[r] \in Shas
    /\ pc[r] \in {"uploaded", "checked", "deleting"} => doc[r] \in used
    /\ pc[r] \in {"unlinking", "unlinked"} => doc[r] \in used \ rows

\* The audit trail, written in a commit of its own after each mutation, may miss
\* one but never tells of an upload or a delete that did not happen.
AuditNeverAhead ==
  \A d \in Documents :
    /\ <<"document.upload", d>> \in audit => d \in used
    /\ <<"document.delete", d>> \in audit => d \in used \ rows

\* The inductive invariant behind the theorems of DocumentStoreProofs.
Inv == TypeOK /\ NoDanglingAmendment /\ RequestsInHand /\ AuditNeverAhead

\* "Row first": no request removes the bytes of a document whose row is there,
\* except one that deletes an earlier document with the same content.
RowFirst ==
  [][\A d \in rows : sha[d] \in files /\ sha[d] \notin files' =>
       \E r \in Requests :
         /\ pc[r] = "unlinking" /\ pc'[r] = "unlinked"
         /\ content[r] = sha[d]
         /\ doc[r] \in used \ {d}]_vars

\* documents.py: "a crash between the two steps leaves at worst an orphan file,
\* never a row pointing at missing bytes".
RowHasFile == \A d \in rows : sha[d] \in files
=============================================================================
