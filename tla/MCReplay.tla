------------------------------ MODULE MCReplay ------------------------------
(***************************************************************************)
(* Instances of Replay for TLC: what Recorder can leave in a folder.       *)
(***************************************************************************)
EXTENDS Replay

Folder(l, r, ok) == [left |-> l, right |-> r, ok |-> ok]

OneRecording  == Folder(<<1, 2, 3>>, <<1, 2, 3>>, TRUE)
TwoRecordings == Folder(<<1, 2, 1, 2>>, <<1, 2, 1, 2>>, TRUE)
RightLost     == Folder(<<1, 2, 3>>, <<1, 3>>, TRUE)
ImageGone     == Folder(<<1, 2>>, <<1, 2>>, FALSE)
ShortOne      == Folder(<<1>>, <<1>>, TRUE)
NothingYet    == Folder(<<>>, <<>>, TRUE)

MCFolders == {OneRecording, TwoRecordings, RightLost, ImageGone, ShortOne, NothingYet}

\* Before the first record, at it, and past every list.
MCGarbage == {-1, 0, 9}
=============================================================================
