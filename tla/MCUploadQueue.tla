---------------------------- MODULE MCUploadQueue ----------------------------
(* A small instance of UploadQueue: a post is <<number, copy>>.             *)
EXTENDS UploadQueue

\* Numbers 0 .. 4; numbers 1 and 2 are re-sent once by the client.
RetriedPosts == ((0 .. 4) \X {1}) \cup ({1, 2} \X {2})

SeqOfRetried == [p \in RetriedPosts |-> p[1]]
==============================================================================
