--------------------------- MODULE MCSaveAndSend ---------------------------
EXTENDS SaveAndSend

FolderAndFile == {"d", "d/f"}
Components == [p \in FolderAndFile |-> IF p = "d" THEN 1 ELSE 2]
\* "odd" leaves a short last chunk, "even" fills its chunks.
Sizes == [v \in Versions |-> IF v = "even" THEN 4 ELSE 3]
=============================================================================
