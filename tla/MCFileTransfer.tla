--------------------------- MODULE MCFileTransfer ---------------------------
EXTENDS FileTransfer

File(n) == [IsDir |-> FALSE, Size |-> n]
Dir == [IsDir |-> TRUE, Size |-> 1]

\* A single file of every size up to two chunks and a bit, an empty one included,
\* and trees with an empty file and with two files.
MCManifests ==
    {<<File(n)>> : n \in 0 .. 5}
        \cup {<<Dir, File(0)>>, <<Dir, File(3), File(2)>>, <<Dir, File(1), Dir, File(4)>>}
=============================================================================
