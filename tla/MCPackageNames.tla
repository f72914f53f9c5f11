--------------------------- MODULE MCPackageNames ---------------------------
(***************************************************************************)
(* Two files without inodes, one of which has two paths, and one with an   *)
(* inode that is also the first number which the table gives.              *)
(***************************************************************************)
EXTENDS PackageNames, TLC

CONSTANTS t1, t2, disk, share

MCLinks == {"a", "alias", "b", "c"}
MCFiles == {"a", "b", "c"}
MCRealpath == [link \in MCLinks |-> IF link = "alias" THEN "a" ELSE link]
MCDev == [f \in MCFiles |-> IF f = "c" THEN disk ELSE share]
MCIno == [f \in MCFiles |-> IF f = "c" THEN 1 ELSE 0]
\* The second version of a file is older, as old, or newer than the first.
MCTime == [f \in MCFiles |-> CASE f = "a" -> <<2, 1>> [] f = "b" -> <<3, 3>> [] f = "c" -> <<1, 2>>]
MCThreads == {t1, t2}
ThreadSymmetry == Permutations(MCThreads)
=============================================================================
