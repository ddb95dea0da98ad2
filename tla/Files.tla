------------------------------- MODULE Files -------------------------------
(***************************************************************************)
(* Table file and the objects in S3: FilesController, FilesService and the  *)
(* storage FilesModule gives to multer.  The two are never changed together: *)
(* an upload stores all its objects, then saves one row after another; a     *)
(* removal hands keys to S3 and does not wait for the answer.                *)
(***************************************************************************)
EXTENDS FiniteSets

CONSTANTS
  File,        \* the files ever uploaded; each gets a random key of its own
  Batches,     \* bound: sets of files uploaded together
  Nameable     \* bound: files that requests name once they are uploaded

ASSUME FilesAssumption == Batches \subseteq SUBSET File /\ Nameable \subseteq File

VARIABLES
  objects,    \* the bucket
  rows,       \* files with a row in table file
  uploads,    \* for each upload in flight, its files without a row so far
  deleting,   \* objects S3 was asked to delete and has not answered for
  named,      \* auxiliary: what removals have named so far
  lost        \* auxiliary: files of uploads that failed

fileVars == <<objects, rows, uploads, deleting, named, lost>>

\* A removal names a file by the path of its row, which is a URL, or by the key of
\* its object.  The two are never the same string.
Name == {"url", "key"} \X File

Known == {f \in File : objects[f] # "absent"}

Uploading == UNION uploads

\* What requests may name: paths are random, and the answer to an upload tells them.
Answered == (Known \cap Nameable) \ (Uploading \cup lost)

FilesTypeOK ==
  /\ objects \in [File -> {"absent", "stored", "deleted"}]
  /\ rows \subseteq File
  /\ uploads \subseteq SUBSET File
  /\ deleting \subseteq File
  /\ named \subseteq Name
  /\ lost \subseteq File

FilesInit ==
  /\ objects = [f \in File |-> "absent"]
  /\ rows = {}
  /\ uploads = {}
  /\ deleting = {}
  /\ named = {}
  /\ lost = {}

\* POST files/upload: multer has stored every object before the handler starts; had
\* one of them failed, it would have taken the others back.
Upload(F) ==
  /\ F # {} /\ F \cap Known = {}
  /\ objects' = [f \in File |-> IF f \in F THEN "stored" ELSE objects[f]]
  /\ uploads' = uploads \cup {F}
  /\ UNCHANGED <<rows, deleting, named, lost>>

\* Faulty: the first row answers the upload.
LeftOfFirst(F, f) == {}

\* The loop of uploadFile goes on until every file has its row.
Left(F, f) == F \ {f}

\* filesService.uploadFile(file)
SaveRow(F, f) ==
  /\ rows' = rows \cup {f}
  /\ uploads' = (uploads \ {F}) \cup ({Left(F, f)} \ {{}})
  /\ UNCHANGED <<objects, deleting, named, lost>>

\* A row cannot be saved, or the process stops: the rest of the upload has no rows.
AbortUpload(F) ==
  /\ uploads' = uploads \ {F}
  /\ lost' = lost \cup F
  /\ UNCHANGED <<objects, rows, deleting, named>>

\* deleteFile hands the names over as keys; a URL is the key of no object, and the
\* deletion of an object that is gone is nothing.
KeysOf(N) == {f \in File : <<"key", f>> \in N /\ objects[f] = "stored"}

\* Faulty: the rows were named by their keys as well.
PathsOrKeysOf(N) == {f \in File : <<"url", f>> \in N \/ <<"key", f>> \in N}

\* bulkRemove: path IN (...), where a key is the path of no row.
PathsOf(N) == {f \in File : <<"url", f>> \in N}

\* DELETE files: the call of S3 is on its way when the rows are deleted, and stays so
\* when they cannot be.
Remove(N) ==
  /\ N # {} /\ N \subseteq {"url", "key"} \X Answered
  /\ deleting' = deleting \cup KeysOf(N)
  /\ rows' \in {rows \ PathsOf(N), rows}
  /\ named' = named \cup N
  /\ UNCHANGED <<objects, uploads, lost>>

\* The callback of deleteObjects: the answer is not looked at.
ObjectDeleted(f) ==
  /\ f \in deleting
  /\ deleting' = deleting \ {f}
  /\ objects' = [objects EXCEPT ![f] = "deleted"]
  /\ UNCHANGED <<rows, uploads, named, lost>>

DeletionRefused(f) ==
  /\ f \in deleting
  /\ deleting' = deleting \ {f}
  /\ UNCHANGED <<objects, rows, uploads, named, lost>>

FilesNext ==
  \/ \E F \in Batches : Upload(F)
  \/ \E F \in uploads : AbortUpload(F) \/ \E f \in F : SaveRow(F, f)
  \/ \E N \in SUBSET Name : Remove(N)
  \/ \E f \in File : ObjectDeleted(f) \/ DeletionRefused(f)

-----------------------------------------------------------------------------
(* Properties *)

\* Rows and objects part only over files whose upload failed or which a removal named:
\* every other file that was stored has its row, or will have; a row leads to an object
\* as long as nobody gave its key to S3, and naming a row's path deletes no object.
RowsMatchObjects == \A f \in File :
  /\ f \in Known \ (Uploading \cup lost) /\ <<"url", f>> \notin named => f \in rows
  /\ f \in rows => f \in Known /\ f \notin Uploading
  /\ f \in Uploading => f \in Known
  /\ objects[f] = "deleted" \/ f \in deleting => <<"key", f>> \in named
=============================================================================
