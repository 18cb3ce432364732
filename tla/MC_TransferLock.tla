--------------------------- MODULE MC_TransferLock ---------------------------
(* Three processes: one that holds, one that waits on the same inode and a  *)
(* newcomer. Inodes are reused once nobody refers to them.                  *)
EXTENDS TransferLock
=============================================================================
