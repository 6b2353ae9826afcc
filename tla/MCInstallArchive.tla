--------------------------- MODULE MCInstallArchive ---------------------------
(***************************************************************************)
(* Instances of InstallArchive for TLC.                                    *)
(***************************************************************************)
EXTENDS InstallArchive, TLC

Archive(id, kind, tops, slash) == [id |-> id, kind |-> kind, tops |-> tops, slash |-> slash]

\* An archive with a directory of its own (that of etcd), one without, one
\* with nothing in it, one that cannot be cached and a zip file.
AllUrls ==
  {Archive(1, "tar", 1, FALSE), Archive(2, "tar", 2, FALSE), Archive(3, "tar", 0, FALSE),
   Archive(4, "tar", 1, TRUE), Archive(5, "zip", 1, FALSE)}

\* The archive of the etcd test.
EtcdUrl == {Archive(1, "tar", 1, FALSE)}

AllCommands == {"stat", "rm", "mkdir", "wget", "tar", "unzip", "ls", "mv"}

\* Random names are interchangeable.
Names == Permutations(TmpNames)
==============================================================================
