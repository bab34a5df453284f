------------------------- MODULE DocumentStoreProofs -------------------------
(***************************************************************************)
(* Theorems about DocumentStore, for any number of documents, contents and *)
(* requests.  Each lemma below takes one group of actions through the      *)
(* parts of Inv: the types, the foreign key, what requests hold, the trail.*)
(***************************************************************************)
EXTENDS DocumentStore, TLAPS

LEMMA InitInv == Init => Inv
  BY StoreAssumption DEF Init, Inv, TypeOK, NoDanglingAmendment, RequestsInHand,
                          AuditNeverAhead, PC

LEMMA StutterInv == ASSUME Inv, UNCHANGED vars PROVE Inv'
  BY DEF Inv, TypeOK, NoDanglingAmendment, RequestsInHand, AuditNeverAhead,
         vars, docVars, reqVars

\* A request that ends leaves the catalogue and the files as they are, and at
\* most one more line in the audit trail.
LEMMA AnswerInv ==
  ASSUME Inv, NEW r \in Requests, Answer(r), UNCHANGED <<docVars, files>>,
         audit' \subseteq {"document.upload", "document.delete"} \X used,
         AuditNeverAhead'
  PROVE  Inv'
<1>1. TypeOK'
  BY DEF Inv, TypeOK, Answer, docVars, PC
<1>2. NoDanglingAmendment'
  BY DEF Inv, NoDanglingAmendment, docVars
<1>3. RequestsInHand'
  BY DEF Inv, TypeOK, RequestsInHand, Answer, docVars
<1> QED BY <1>1, <1>2, <1>3 DEF Inv

LEMMA EndInv ==
  ASSUME Inv, NEW r \in Requests,
         \/ InsertConflicts(r) \/ AuditUpload(r) \/ DeleteConflicts(r)
         \/ AuditDelete(r) \/ Crash(r)
  PROVE  Inv'
<1>1. audit' \subseteq {"document.upload", "document.delete"} \X used
  BY DEF Inv, TypeOK, RequestsInHand, InsertConflicts, AuditUpload, DeleteConflicts,
         AuditDelete, Crash
<1>2. Answer(r) /\ UNCHANGED <<docVars, files>>
  BY DEF InsertConflicts, AuditUpload, DeleteConflicts, AuditDelete, Crash
<1>3. AuditNeverAhead'
  <2>1. CASE AuditUpload(r)
    BY <1>2, <2>1 DEF Inv, RequestsInHand, AuditNeverAhead, AuditUpload, docVars
  <2>2. CASE AuditDelete(r)
    BY <1>2, <2>2 DEF Inv, RequestsInHand, AuditNeverAhead, AuditDelete, docVars
  <2>3. CASE InsertConflicts(r) \/ DeleteConflicts(r) \/ Crash(r)
    BY <1>2, <2>3 DEF Inv, AuditNeverAhead, InsertConflicts, DeleteConflicts, Crash, docVars
  <2> QED BY <2>1, <2>2, <2>3
<1> QED BY <1>1, <1>2, <1>3, AnswerInv

LEMMA StartUploadInv ==
  ASSUME Inv, NEW r \in Requests, NEW s \in Shas, NEW p \in Documents \cup {None},
         StartUpload(r, s, p)
  PROVE  Inv'
<1>1. TypeOK'
  BY DEF Inv, TypeOK, StartUpload, Move, docVars, PC
<1>2. NoDanglingAmendment'
  BY DEF Inv, NoDanglingAmendment, StartUpload, docVars
<1>3. RequestsInHand'
  BY DEF Inv, TypeOK, RequestsInHand, StartUpload, Move, docVars
<1>4. AuditNeverAhead'
  BY DEF Inv, TypeOK, AuditNeverAhead, StartUpload, docVars
<1> QED BY <1>1, <1>2, <1>3, <1>4 DEF Inv

LEMMA SaveInv == ASSUME Inv, NEW r \in Requests, Save(r) PROVE Inv'
<1>1. TypeOK'
  BY DEF Inv, TypeOK, RequestsInHand, Save, Move, docVars, PC
<1>2. NoDanglingAmendment'
  BY DEF Inv, NoDanglingAmendment, Save, docVars
<1>3. RequestsInHand'
  BY DEF Inv, TypeOK, RequestsInHand, Save, Move, docVars
<1>4. AuditNeverAhead'
  BY DEF Inv, TypeOK, AuditNeverAhead, Save, docVars
<1> QED BY <1>1, <1>2, <1>3, <1>4 DEF Inv

\* The foreign key holds for the new row, and no request is deleting a fresh id.
LEMMA InsertInv ==
  ASSUME Inv, NEW r \in Requests, NEW d \in Documents, Insert(r, d)
  PROVE  Inv'
<1>1. TypeOK'
  BY DEF Inv, TypeOK, RequestsInHand, Insert, Move, PC
<1>2. NoDanglingAmendment'
  BY DEF Inv, TypeOK, NoDanglingAmendment, Insert
<1>3. RequestsInHand'
  BY DEF Inv, TypeOK, RequestsInHand, Insert, Move
<1>4. AuditNeverAhead'
  BY DEF Inv, TypeOK, AuditNeverAhead, Insert
<1> QED BY <1>1, <1>2, <1>3, <1>4 DEF Inv

LEMMA StartDeleteInv ==
  ASSUME Inv, NEW r \in Requests, NEW d \in Documents, StartDelete(r, d)
  PROVE  Inv'
<1>1. TypeOK'
  BY DEF Inv, TypeOK, StartDelete, Move, docVars, PC
<1>2. NoDanglingAmendment'
  BY DEF Inv, NoDanglingAmendment, StartDelete, docVars
<1>3. RequestsInHand'
  BY DEF Inv, TypeOK, RequestsInHand, StartDelete, Move, docVars
<1>4. AuditNeverAhead'
  BY DEF Inv, TypeOK, AuditNeverAhead, StartDelete, docVars
<1> QED BY <1>1, <1>2, <1>3, <1>4 DEF Inv

LEMMA CheckAmendmentsInv ==
  ASSUME Inv, NEW r \in Requests, CheckAmendments(r)
  PROVE  Inv'
<1>1. CASE HasAmendments(doc[r])
  BY <1>1, AnswerInv DEF CheckAmendments, Inv, TypeOK, AuditNeverAhead, docVars
<1>2. CASE ~HasAmendments(doc[r])
  <2>1. TypeOK'
    BY <1>2 DEF Inv, TypeOK, CheckAmendments, Move, docVars, PC
  <2>2. NoDanglingAmendment'
    BY <1>2 DEF Inv, NoDanglingAmendment, CheckAmendments, docVars
  <2>3. RequestsInHand'
    BY <1>2 DEF Inv, TypeOK, RequestsInHand, CheckAmendments, Move, docVars
  <2>4. AuditNeverAhead'
    BY <1>2 DEF Inv, AuditNeverAhead, CheckAmendments, docVars
  <2> QED BY <2>1, <2>2, <2>3, <2>4 DEF Inv
<1> QED BY <1>1, <1>2

\* RESTRICT is what keeps the parents of the remaining rows.
LEMMA DeleteRowInv == ASSUME Inv, NEW r \in Requests, DeleteRow(r) PROVE Inv'
<1>1. TypeOK'
  BY DEF Inv, TypeOK, DeleteRow, Move, PC
<1>2. NoDanglingAmendment'
  BY DEF Inv, TypeOK, NoDanglingAmendment, RequestsInHand, DeleteRow, HasAmendments
<1>3. RequestsInHand'
  BY DEF Inv, TypeOK, RequestsInHand, DeleteRow, Move
<1>4. AuditNeverAhead'
  BY DEF Inv, TypeOK, AuditNeverAhead, DeleteRow
<1> QED BY <1>1, <1>2, <1>3, <1>4 DEF Inv

LEMMA UnlinkInv == ASSUME Inv, NEW r \in Requests, Unlink(r) PROVE Inv'
<1>1. TypeOK'
  BY DEF Inv, TypeOK, Unlink, Move, docVars, PC
<1>2. NoDanglingAmendment'
  BY DEF Inv, NoDanglingAmendment, Unlink, docVars
<1>3. RequestsInHand'
  BY DEF Inv, TypeOK, RequestsInHand, Unlink, Move, docVars
<1>4. AuditNeverAhead'
  BY DEF Inv, TypeOK, AuditNeverAhead, Unlink, docVars
<1> QED BY <1>1, <1>2, <1>3, <1>4 DEF Inv

LEMMA NextInv == ASSUME Inv, [Next]_vars PROVE Inv'
<1>1. CASE UNCHANGED vars
  BY <1>1, StutterInv
<1>2. ASSUME NEW r \in Requests,
             \E s \in Shas, p \in Documents \cup {None} : StartUpload(r, s, p)
      PROVE  Inv'
  BY <1>2, StartUploadInv
<1>3. ASSUME NEW r \in Requests, \E d \in Documents : Insert(r, d) \/ StartDelete(r, d)
      PROVE  Inv'
  BY <1>3, InsertInv, StartDeleteInv
<1>4. ASSUME NEW r \in Requests,
             Save(r) \/ CheckAmendments(r) \/ DeleteRow(r) \/ Unlink(r)
      PROVE  Inv'
  BY <1>4, SaveInv, CheckAmendmentsInv, DeleteRowInv, UnlinkInv
<1>5. ASSUME NEW r \in Requests,
             \/ InsertConflicts(r) \/ AuditUpload(r) \/ DeleteConflicts(r)
             \/ AuditDelete(r) \/ Crash(r)
      PROVE  Inv'
  BY <1>5, EndInv
<1> QED BY <1>1, <1>2, <1>3, <1>4, <1>5 DEF Next

\* Inv is an invariant of the document store.
THEOREM Invariance == Spec => []Inv
<1>1. Init => Inv
  BY InitInv
<1>2. Inv /\ [Next]_vars => Inv'
  BY NextInv
<1> QED BY <1>1, <1>2, PTL DEF Spec

\* The store's variables and what each request has in hand keep their types.
THEOREM TypeCorrect == Spec => []TypeOK
<1>1. Inv => TypeOK
  BY DEF Inv
<1> QED BY <1>1, Invariance, PTL

\* Whatever requests race and wherever they are cut off, a document whose row
\* is there has its parent's row there too (upload_document, delete_document).
THEOREM AmendmentsKeepTheirParent == Spec => []NoDanglingAmendment
<1>1. Inv => NoDanglingAmendment
  BY DEF Inv
<1> QED BY <1>1, Invariance, PTL

\* The audit trail tells of no upload or delete that did not happen: its row is
\* committed after the mutation's, and ids are never used twice.
THEOREM AuditFollows == Spec => []AuditNeverAhead
<1>1. Inv => AuditNeverAhead
  BY DEF Inv
<1> QED BY <1>1, Invariance, PTL

\* Only Unlink takes bytes away, and the document it deletes has no row.
LEMMA StepRowFirst ==
  ASSUME Inv, [Next]_vars, NEW d \in rows, sha[d] \in files, sha[d] \notin files'
  PROVE  \E r \in Requests :
           /\ pc[r] = "unlinking" /\ pc'[r] = "unlinked"
           /\ content[r] = sha[d]
           /\ doc[r] \in used \ {d}
<1>1. PICK r \in Requests : Unlink(r)
  BY DEF Next, vars, StartUpload, Save, Insert, StartDelete, InsertConflicts, AuditUpload,
         CheckAmendments, DeleteRow, DeleteConflicts, AuditDelete, Crash
<1>2. pc[r] = "unlinking" /\ pc'[r] = "unlinked" /\ content[r] = sha[d]
  BY <1>1 DEF Unlink, Move, Inv, TypeOK
<1>3. doc[r] \in used \ rows
  BY <1>2 DEF Inv, RequestsInHand
<1> QED BY <1>2, <1>3

\* "Row first": bytes go only in a delete whose row went before, so the bytes of
\* a document with a row can only be taken by the delete of another document.
THEOREM BytesGoAfterTheRow == Spec => RowFirst
<1>1. Inv /\ [Next]_vars =>
        [\A d \in rows : sha[d] \in files /\ sha[d] \notin files' =>
           \E r \in Requests :
             /\ pc[r] = "unlinking" /\ pc'[r] = "unlinked"
             /\ content[r] = sha[d]
             /\ doc[r] \in used \ {d}]_vars
  BY StepRowFirst
<1> QED BY <1>1, Invariance, PTL DEF Spec, RowFirst
=============================================================================
