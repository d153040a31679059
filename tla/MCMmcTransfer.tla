---------------------------- MODULE MCMmcTransfer ----------------------------
(* Two partitions, of two blocks and of one, two versions of an image file, *)
(* one application of each kind, two transfers and one fault.               *)
EXTENDS MmcTransfer, TLC

CONSTANTS ed, gui

Image(d, good) == [name |-> "image", size |-> Len(d), data |-> d, good |-> good, regular |-> TRUE]

\* The second version has the metadata of the first and damaged bytes.
MCArchives == {<<Image(<<1, 1>>, TRUE)>>, <<Image(<<2, 2>>, FALSE)>>}
MCBatches == {<<1, 2>>}
MCLayout == (1 :> <<1, 2>>) @@ (2 :> <<3, 3>>)
MCFactory == <<7, 8, 9>>
MCMounts == {{}, {1}}
=============================================================================
