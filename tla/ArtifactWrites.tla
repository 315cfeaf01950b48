---------------------------- MODULE ArtifactWrites ----------------------------
(***************************************************************************)
(* Artifacts: a Tool result that is too large for the model goes to a file *)
(* and a metadata row names the file.  The two are written one after the   *)
(* other, without a transaction around them, and a download reads the row  *)
(* and then the file.                                                      *)
(*                                                                         *)
(* Source: _store_tool_artifact and open_artifact of control/plane.py,     *)
(* artifacts/store.py, add_artifact of store/postgres.py.  The file system *)
(* and the database are external: a write may fail half-way, and an INSERT *)
(* whose answer is lost, or no longer awaited, may still be committed.     *)
(*                                                                         *)
(* Grain.  File work is done in threads, which a cancelled coroutine       *)
(* leaves running, so a coroutine and its thread are two things.  An       *)
(* artifact_id is used once, which makes O_EXCL succeed.                   *)
(***************************************************************************)

CONSTANT Artifacts      \* artifact_ids, each stored by one call of a Tool

VARIABLES
    store,      \* the handlers: _store_tool_artifact
    thread,     \* _write_exclusive or unlink, in a thread
    body,       \* the file
    insert,     \* the INSERT of add_artifact
    row,        \* the row of artifacts
    download    \* one request for a body

vars == <<store, thread, body, insert, row, download>>

-----------------------------------------------------------------------------
(* pc of _store_tool_artifact: new, putting (awaits the thread that writes *)
(* the file), adding (awaits add_artifact), undoing (awaits the thread     *)
(* that deletes the file); and how it ended:                               *)
(*   stored     the record is returned                                     *)
(*   failed     the file could not be written                              *)
(*   undone     the row failed, the file was deleted                       *)
(*   left       the row failed, and so did deleting the file               *)
(*   cancelled  the call was cancelled during the put                      *)
(*   crashed    the process died                                           *)
Busy == {"putting", "adding", "undoing"}
StorePc == Busy \cup {"new", "stored", "failed", "undone", "left", "cancelled", "crashed"}

(* found: the row was read; checked: the file was there; streaming: it is  *)
(* open.  An open file can be read to its end when it has been deleted.    *)
Download == [pc: {"idle", "found", "checked", "streaming", "complete", "notFound", "broken"},
             artifact: Artifacts, content: {"none", "partial", "whole"}]

Init ==
    /\ store = [a \in Artifacts |-> "new"]
    /\ thread = [a \in Artifacts |-> "none"]
    /\ body = [a \in Artifacts |-> "none"]
    /\ insert = [a \in Artifacts |-> "none"]
    /\ row = [a \in Artifacts |-> FALSE]
    /\ download \in {d \in Download : d.pc = "idle" /\ d.content = "none"}

-----------------------------------------------------------------------------
(* The thread of _write_exclusive and that of delete.                      *)

FileCreated(a) ==
    /\ thread[a] = "writing" /\ body[a] = "none"
    /\ body' = [body EXCEPT ![a] = "partial"]
    /\ UNCHANGED <<store, thread, insert, row, download>>

(* Written, flushed and fsynced.                                           *)
FileWritten(a) ==
    /\ thread[a] = "writing" /\ body[a] = "partial"
    /\ body' = [body EXCEPT ![a] = "whole"]
    /\ thread' = [thread EXCEPT ![a] = "written"]
    /\ UNCHANGED <<store, insert, row, download>>

(* No space, no permission: what there is of the file is unlinked, if that *)
(* is possible.                                                            *)
FileFails(a) ==
    /\ thread[a] = "writing"
    /\ UNCHANGED body \/ body' = [body EXCEPT ![a] = "none"]
    /\ thread' = [thread EXCEPT ![a] = "raised"]
    /\ UNCHANGED <<store, insert, row, download>>

FileDeleted(a) ==
    /\ thread[a] = "deleting"
    /\ body' = [body EXCEPT ![a] = "none"]
    /\ thread' = [thread EXCEPT ![a] = "deleted"]
    /\ UNCHANGED <<store, insert, row, download>>

DeleteFails(a) ==
    /\ thread[a] = "deleting"
    /\ thread' = [thread EXCEPT ![a] = "raised"]
    /\ UNCHANGED <<store, body, insert, row, download>>

-----------------------------------------------------------------------------
(* The INSERT in the database.                                             *)

InsertCommits(a) ==
    /\ insert[a] = "sent"
    /\ row' = [row EXCEPT ![a] = TRUE]
    /\ insert' = [insert EXCEPT ![a] = "committed"]
    /\ UNCHANGED <<store, thread, body, download>>

InsertRefused(a) ==
    /\ insert[a] = "sent"
    /\ insert' = [insert EXCEPT ![a] = "refused"]
    /\ UNCHANGED <<store, thread, body, row, download>>

-----------------------------------------------------------------------------
(* _store_tool_artifact.                                                   *)

Goto(a, pc) == store' = [store EXCEPT ![a] = pc]

PutStarts(a) ==
    /\ store[a] = "new"
    /\ Goto(a, "putting")
    /\ thread' = [thread EXCEPT ![a] = "writing"]
    /\ UNCHANGED <<body, insert, row, download>>

(* Fault: the row is written while the file still is.                      *)
PutReturnsEarly(a) ==
    /\ store[a] = "putting" /\ thread[a] \in {"writing", "written"}
    /\ Goto(a, "adding")
    /\ insert' = [insert EXCEPT ![a] = "sent"]
    /\ UNCHANGED <<thread, body, row, download>>

PutReturns(a) ==
    /\ store[a] = "putting" /\ thread[a] = "written"
    /\ Goto(a, "adding")
    /\ insert' = [insert EXCEPT ![a] = "sent"]
    /\ UNCHANGED <<thread, body, row, download>>

PutRaises(a) ==
    /\ store[a] = "putting" /\ thread[a] = "raised"
    /\ Goto(a, "failed")
    /\ UNCHANGED <<thread, body, insert, row, download>>

(* The put is not inside the try: its thread goes on and nobody cleans up. *)
PutCancelled(a) ==
    /\ store[a] = "putting"
    /\ Goto(a, "cancelled")
    /\ UNCHANGED <<thread, body, insert, row, download>>

AddReturns(a) ==
    /\ store[a] = "adding" /\ insert[a] = "committed"
    /\ Goto(a, "stored")
    /\ UNCHANGED <<thread, body, insert, row, download>>

(* Refused, cancelled, or the connection is lost before the answer: the    *)
(* file is deleted whatever became of the INSERT.                          *)
AddRaises(a) ==
    /\ store[a] = "adding"
    /\ Goto(a, "undoing")
    /\ thread' = [thread EXCEPT ![a] = "deleting"]
    /\ UNCHANGED <<body, insert, row, download>>

(* "failed to remove orphaned artifact body", or cancelled once more while *)
(* the thread goes on.                                                     *)
UndoEnds(a) ==
    /\ store[a] = "undoing"
    /\ \/ thread[a] = "deleted" /\ Goto(a, "undone")
       \/ thread[a] \in {"deleting", "raised"} /\ Goto(a, "left")
    /\ UNCHANGED <<thread, body, insert, row, download>>

(* The process dies with its coroutines and threads; what was sent to the  *)
(* database was sent.                                                      *)
Crash ==
    /\ \E a \in Artifacts : store[a] \in Busy \/ thread[a] \in {"writing", "deleting"}
    /\ store' = [a \in Artifacts |-> IF store[a] \in Busy THEN "crashed" ELSE store[a]]
    /\ thread' = [a \in Artifacts |-> IF thread[a] \in {"writing", "deleting"}
                                      THEN "killed" ELSE thread[a]]
    /\ UNCHANGED <<body, insert, row, download>>

-----------------------------------------------------------------------------
(* open_artifact and the response that streams the file, in an API process.*)

Request(a) ==
    /\ download.pc = "idle"
    /\ download' = [download EXCEPT !.artifact = a,
                                    !.pc = IF row[a] THEN "found" ELSE "notFound"]
    /\ UNCHANGED <<store, thread, body, insert, row>>

Opens ==
    /\ download.pc = "found"
    /\ download' = [download EXCEPT !.pc =
                      IF body[download.artifact] # "none" THEN "checked" ELSE "notFound"]
    /\ UNCHANGED <<store, thread, body, insert, row>>

(* The file is opened when the first chunk is asked for, after the status  *)
(* and the headers were sent.                                              *)
StreamStarts ==
    /\ download.pc = "checked"
    /\ LET content == body[download.artifact] IN
       download' = [download EXCEPT !.pc = IF content # "none" THEN "streaming" ELSE "broken",
                                    !.content = content]
    /\ UNCHANGED <<store, thread, body, insert, row>>

StreamEnds ==
    /\ download.pc = "streaming"
    /\ download' = [download EXCEPT !.pc = "complete"]
    /\ UNCHANGED <<store, thread, body, insert, row>>

-----------------------------------------------------------------------------
ThreadStep(a) ==
    FileCreated(a) \/ FileWritten(a) \/ FileFails(a) \/ FileDeleted(a) \/ DeleteFails(a)

StoreStep(a) ==
    \/ PutStarts(a) \/ PutReturns(a) \/ PutRaises(a) \/ PutCancelled(a)
    \/ AddReturns(a) \/ AddRaises(a) \/ UndoEnds(a)

Next ==
    \/ \E a \in Artifacts :
          \/ StoreStep(a) \/ ThreadStep(a)
          \/ InsertCommits(a) \/ InsertRefused(a) \/ Request(a)
    \/ Crash \/ Opens \/ StreamStarts \/ StreamEnds

Spec == Init /\ [][Next]_vars

-----------------------------------------------------------------------------
(* The variables have their types.                                         *)
TypeOK ==
    /\ store \in [Artifacts -> StorePc]
    /\ thread \in [Artifacts -> {"none", "writing", "written", "deleting", "deleted",
                                 "raised", "killed"}]
    /\ body \in [Artifacts -> {"none", "partial", "whole"}]
    /\ insert \in [Artifacts -> {"none", "sent", "committed", "refused"}]
    /\ row \in [Artifacts -> BOOLEAN]
    /\ download \in Download

(* A row names a whole file, unless its call failed and undid the file: a  *)
(* half-written one is never named, nor downloaded.  A file that no row    *)
(* names belongs to a call that is at work, was cancelled, failed to       *)
(* delete it, or died with its process; or it is half-written and its call *)
(* has failed.  And who was told of an Artifact has both.                  *)
RowsNameBodies ==
    /\ \A a \in Artifacts :
          /\ row[a] => body[a] = "whole" \/ store[a] \in {"undoing", "undone", "left", "crashed"}
          /\ row[a] => body[a] # "partial"
          /\ body[a] # "none" /\ ~row[a] =>
                \/ store[a] \in Busy \cup {"cancelled", "left", "crashed"}
                \/ store[a] = "failed" /\ body[a] = "partial"
          /\ store[a] = "stored" => row[a] /\ body[a] = "whole"
    /\ download.pc \in {"streaming", "complete"} => download.content = "whole"

(* A metadata row never names a file that does not exist: not kept, since  *)
(* add_artifact may raise although its INSERT is, or will be, committed.   *)
RowHasBody == \A a \in Artifacts : row[a] => body[a] # "none"

=============================================================================
