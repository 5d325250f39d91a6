--------------------------- MODULE UploadSession ---------------------------
(***************************************************************************)
(* upload_item and update_item of the OneDrive adapter.  The size of the   *)
(* file is read first and once; a small file is then read and sent whole,  *)
(* a large one in chunks, each read when it is sent.  A file is the        *)
(* sequence of its pieces: whoever saves it may do so between two reads.   *)
(***************************************************************************)
EXTENDS Integers, Sequences

CONSTANTS
    SIMPLE_UPLOAD_LIMIT,    \* in pieces, like the next
    UPLOAD_CHUNK_SIZE

ASSUME UploadAssumption ==
    /\ SIMPLE_UPLOAD_LIMIT \in Nat \ {0}
    /\ UPLOAD_CHUNK_SIZE \in Nat \ {0}

VARIABLES
    stage,      \* how far the transfer is
    size,       \* the size read at its start
    offset,     \* where the next chunk starts
    body        \* what the server has received

sessionVars == <<stage, size, offset, body>>

Stages == {"none", "simple", "sending", "stored"}

SessionInit ==
    /\ stage = "none"
    /\ size = 0
    /\ offset = 0
    /\ body = <<>>

-----------------------------------------------------------------------------
(* What is read and sent, and how: by a simple PUT or in a session, which  *)
(* is created before the file is read.                                     *)
Metadata(file) ==
    /\ stage = "none"
    /\ stage' = IF Len(file) <= SIMPLE_UPLOAD_LIMIT THEN "simple" ELSE "sending"
    /\ size' = Len(file)
    /\ offset' = 0
    /\ body' = <<>>

(* The whole file, whatever its size is by now.                            *)
SimplePut(file) ==
    /\ stage = "simple"
    /\ stage' = "stored"
    /\ body' = file
    /\ UNCHANGED <<size, offset>>

(* Mutated form: the last chunk is as long as the others.                  *)
FullChunks == UPLOAD_CHUNK_SIZE

Count ==
    IF size - offset < UPLOAD_CHUNK_SIZE THEN size - offset ELSE UPLOAD_CHUNK_SIZE

End == offset + Count - 1

(* read_exact wants all of the range to be there.                          *)
Readable(file) == End < Len(file)

(* The server: 202 until it has the range that ends with the last byte.    *)
Accepted(end) == end + 1 < size

(* Mutated form: the next chunk starts at the last byte of this one.       *)
PutChunkFromEnd(file) ==
    /\ stage = "sending"
    /\ Readable(file)
    /\ body' = body \o SubSeq(file, offset + 1, End + 1)
    /\ stage' = IF Accepted(End) THEN "sending" ELSE "stored"
    /\ offset' = IF Accepted(End) THEN End ELSE offset
    /\ UNCHANGED size

PutChunk(file) ==
    /\ stage = "sending"
    /\ Readable(file)
    /\ body' = body \o SubSeq(file, offset + 1, End + 1)
    /\ stage' = IF Accepted(End) THEN "sending" ELSE "stored"
    /\ offset' = IF Accepted(End) THEN End + 1 ELSE offset
    /\ UNCHANGED size

(* The call returns, one way or the other, and its locals go.              *)
EndTransfer ==
    /\ stage' = "none"
    /\ size' = 0
    /\ offset' = 0
    /\ body' = <<>>

-----------------------------------------------------------------------------
(* Every Content-Range is a non-empty part of the file that follows the    *)
(* one before it, the last one ends with the file as it was measured, and  *)
(* only then is the item stored: offset and end never meet or wrap, and    *)
(* there is no empty request after the last chunk (the loop has no other   *)
(* exit than the server's answer).                                         *)
RangesPartitionFile ==
    /\ stage = "sending" =>
         /\ offset = Len(body) /\ offset < size
         /\ Count \in 1 .. UPLOAD_CHUNK_SIZE /\ End < size
    /\ stage = "stored" /\ size > SIMPLE_UPLOAD_LIMIT => Len(body) = size
=============================================================================
