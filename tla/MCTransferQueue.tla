-------------------------- MODULE MCTransferQueue --------------------------
(***************************************************************************)
(* Small instances of TransferQueue: two transfers, of which the first may *)
(* be anything and the second is one no menu handler can be left over for; *)
(* three files in two directories.                                         *)
(***************************************************************************)
EXTENDS TransferQueue, TLC

CONSTANTS t1, t2

MCTransfers == {t1, t2}
MCDirOf == (1 :> 1) @@ (2 :> 1) @@ (3 :> 2)
OneDirOf == (1 :> 1) @@ (2 :> 1)
MCOffers == (t1 :> (DownloadKinds \union UploadKinds)) @@ (t2 :> {"file", "tree", "overwrite"})
DownloadOffers == (t1 :> {"tree"}) @@ (t2 :> {"tree"})
=============================================================================
