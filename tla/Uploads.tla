------------------------------ MODULE Uploads ------------------------------
(***************************************************************************)
(* One uploaded resume, from the size check of the middleware to the       *)
(* storage backend: limit_request_size judges the announced length of the  *)
(* whole request, save_resume reads the file in chunks, counts what it     *)
(* read and compares the first bytes with the declared type.               *)
(*                                                                         *)
(* Two limits are at work, one with a margin on the request and one on the *)
(* file, and a request need not announce its length.  Sizes are numbers in *)
(* any unit; the code's are 1 MiB chunks, 10 MiB files, a 1 MiB margin.    *)
(***************************************************************************)
EXTENDS Naturals

CONSTANTS Chunk,       \* bytes asked of one read
          MaxBytes,    \* max_upload_size_mb
          Margin,      \* what _MAX_REQUEST_BYTES allows beyond MaxBytes
          Sizes,       \* file sizes considered
          Overheads    \* sizes of the rest of the request body

ASSUME SizeAssumption ==
    /\ Chunk \in Nat \ {0} /\ MaxBytes \in Nat /\ Margin \in Nat
    /\ Sizes \subseteq Nat /\ Overheads \subseteq Nat

VARIABLES file,      \* what the client sends; never changes
          pc, total, \* bytes read
          kept,      \* bytes in chunks
          contents,  \* bytes in their concatenation
          stored,    \* bytes handed to the storage backend, in a set
          status     \* 0: no answer yet

memory == <<kept, contents>>
vars == <<file, pc, total, memory, stored, status>>

ALLOWED_CONTENT_TYPES == {"pdf", "docx"}

(* An empty file has no magic bytes.                                       *)
Upload ==
    {f \in [size : Sizes, overhead : Overheads, announced : BOOLEAN,
            declared : ALLOWED_CONTENT_TYPES \cup {"other"},
            magic : ALLOWED_CONTENT_TYPES \cup {"none"}] :
        f.size = 0 => f.magic = "none"}

Init ==
    /\ file \in Upload
    /\ pc = "limit"
    /\ total = 0 /\ kept = 0 /\ contents = 0 /\ stored = {} /\ status = 0
-----------------------------------------------------------------------------
Goto(label) == pc' = label /\ UNCHANGED status

Answer(code) == pc' = "done" /\ status' = code

TooLongFileOnly == file.announced /\ file.size + file.overhead > MaxBytes
TooLong == file.announced /\ file.size + file.overhead > MaxBytes + Margin

LimitRequestSize ==
    /\ pc = "limit"
    /\ IF TooLong THEN Answer(413) ELSE Goto("type")
    /\ UNCHANGED <<file, total, memory, stored>>

CheckType ==
    /\ pc = "type"
    /\ IF file.declared \in ALLOWED_CONTENT_TYPES THEN Goto("read") ELSE Answer(400)
    /\ UNCHANGED <<file, total, memory, stored>>

ChunkSize ==
    IF file.size - total < Chunk THEN file.size - total ELSE Chunk

(* A chunk that takes the total over the limit is not kept.                *)
ReadTruncates ==
    /\ pc = "read" /\ total < file.size
    /\ total' = total + ChunkSize
    /\ IF total' > MaxBytes THEN UNCHANGED kept ELSE kept' = kept + ChunkSize
    /\ Goto("read")
    /\ UNCHANGED <<file, contents, stored>>
ReadKeepsFirst ==
    /\ pc = "read" /\ total < file.size
    /\ total' = total + ChunkSize
    /\ kept' = kept + ChunkSize
    /\ IF total' > MaxBytes THEN Answer(413) ELSE Goto("read")
    /\ UNCHANGED <<file, contents, stored>>
Read ==
    /\ pc = "read" /\ total < file.size
    /\ total' = total + ChunkSize
    /\ IF total' > MaxBytes
       THEN Answer(413) /\ UNCHANGED kept
       ELSE Goto("read") /\ kept' = kept + ChunkSize
    /\ UNCHANGED <<file, contents, stored>>

(* The loop ends with an empty chunk.  The chunks are joined into one more *)
(* copy, while the handler still has them (a single chunk is not copied by *)
(* CPython; it is counted here as if it were), and                         *)
(* _detect_mime_from_magic judges the result.                              *)
DetectMime ==
    /\ pc = "read" /\ total = file.size
    /\ contents' = kept
    /\ IF file.magic = file.declared THEN Goto("save") ELSE Answer(400)
    /\ UNCHANGED <<file, total, kept, stored>>

Save ==
    /\ pc = "save"
    /\ stored' = {contents}
    /\ Answer(201)
    /\ UNCHANGED <<file, total, memory>>

(* The upload is over: stuttering here is not a deadlock.                  *)
Done == pc = "done" /\ UNCHANGED vars

Step == LimitRequestSize \/ CheckType \/ Read \/ DetectMime \/ Save

Next == Step \/ Done

Spec == Init /\ [][Next]_vars
-----------------------------------------------------------------------------
(* Properties.                                                             *)

TypeOK ==
    /\ file \in Upload
    /\ pc \in {"limit", "type", "read", "save", "done"}
    /\ total \in 0..file.size /\ kept \in 0..total /\ contents \in 0..kept
    /\ stored \subseteq Nat
    /\ status \in {0, 201, 400, 413}

(* However long the file and whether or not its length was announced,      *)
(* save_resume reads at most one chunk past the limit and keeps at most    *)
(* the limit in chunks; with their concatenation, which exists beside them *)
(* until the file is stored, it holds at most twice the limit.             *)
MemoryBounded ==
    /\ total <= MaxBytes + Chunk
    /\ kept <= MaxBytes
    /\ kept + contents <= 2 * MaxBytes

(* The two limits together make one: a request whose overhead fits the     *)
(* margin is accepted exactly when its file is within the limit and is     *)
(* what it says, announced or not, the limit itself included.              *)
Acceptable == file.size <= MaxBytes /\ file.magic = file.declared

AcceptedIffAcceptable ==
    pc = "done" /\ file.overhead <= Margin => (status = 201 <=> Acceptable)

(* What reaches the store is the whole file, and only an acceptable one,   *)
(* whatever the overhead.                                                  *)
StoredWhole ==
    /\ stored \subseteq {file.size}
    /\ stored # {} <=> status = 201
    /\ stored # {} => Acceptable
=============================================================================
