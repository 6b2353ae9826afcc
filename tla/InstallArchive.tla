--------------------------- MODULE InstallArchive ---------------------------
(***************************************************************************)
(* ControlHelper::installArchive (src/jepsen/Control.cpp) on the file      *)
(* system of one node: an archive is fetched into the wget cache, unpacked *)
(* in a temporary directory and moved to its destination, one remote       *)
(* command at a time. Between the calls the test may remove the            *)
(* destination (ETCD::teardown). The program may be killed at any command; *)
(* the files on the node stay, and the next program finds them.            *)
(*                                                                         *)
(* The commands are external. Each does what its manual says or, if it is  *)
(* in Fallible, fails and leaves what such a command may leave; the code   *)
(* looks at no result but that of stat.                                    *)
(***************************************************************************)
EXTENDS Integers, FiniteSets, Functions

CONSTANTS Urls,             \* records [id, kind, tops, slash]
          TmpNames,         \* names rand() may yield for a temporary directory
          Fallible,         \* commands that may fail
          MaxCalls          \* bound: calls of installArchive

(***************************************************************************)
(* An archive is a tar or a zip file with some number of entries at its    *)
(* top level; slash says whether the base64 code of its url contains a /,  *)
(* which makes its name in the cache a path through a missing directory.   *)
(***************************************************************************)
ASSUME UrlAssumption ==
  /\ IsFiniteSet(Urls)
  /\ \A u \in Urls : /\ u.kind \in {"tar", "zip"} /\ u.tops \in Nat
                     /\ u.slash \in BOOLEAN
  /\ Fallible \subseteq {"stat", "rm", "mkdir", "wget", "tar", "unzip", "ls", "mv"}
  /\ MaxCalls \in Nat

VARIABLES
  \* files on the node
  cache_dir,        \* does kWgetCacheDir exist?
  cache,            \* url -> "absent", "partial" or "complete"
  tmp,              \* temporary directory -> top-level entries in it
  dest,             \* what is at the destination
  \* the call
  pc,               \* the next command, "idle" or "returned"
  url, force,       \* arguments
  tmp_dir,          \* the temporary directory in use
  size,             \* result.size() of the split listing
  \* about the call, for the properties
  before,           \* cached file and destination when it began
  failed,           \* has a command of this call failed?
  calls

call  == <<url, force, tmp_dir, size, before, calls>>
files == <<cache_dir, cache, tmp, dest>>
vars  == <<files, pc, call, failed>>

-----------------------------------------------------------------------------
\* A top-level entry is unpacked as a whole or in part.
Entry == UNION {[url : {u}, index : 1 .. u.tops, part : {"all", "some"}] : u \in Urls}

\* The entries of a complete archive, and those unpacked when tar stops in
\* the k-th of them.
Contents(u)    == [url : {u}, index : 1 .. u.tops, part : {"all"}]
Truncated(u, k) ==
  [url : {u}, index : 1 .. (k - 1), part : {"all"}] \cup [url : {u}, index : {k}, part : {"some"}]

\* What is at the destination: nothing, a directory, or a single entry in its
\* place; inside tells that later archives were moved into it.
NoDest == [state |-> "none", entries |-> {}, inside |-> FALSE]
Destination == [state : {"none", "entry", "directory", "broken"}, entries : SUBSET Entry,
                inside : BOOLEAN]
Tree(state, entries) == [state |-> state, entries |-> entries, inside |-> FALSE]

\* An installation as the etcd test expects it: the lone directory of an
\* archive takes the place of the destination.
Installed(u) == Tree(IF u.tops = 1 THEN "entry" ELSE "directory", Contents(u))

Succeeds  == UNCHANGED failed
Fails(cmd) == cmd \in Fallible /\ failed' = TRUE

Init ==
  /\ cache_dir = FALSE
  /\ cache = [u \in Urls |-> "absent"]
  /\ tmp = [n \in {} |-> {}]
  /\ dest = NoDest
  /\ pc = "idle"
  /\ url \in Urls /\ force = FALSE
  /\ tmp_dir \in TmpNames
  /\ size = 1
  /\ before = [cached |-> "absent", dest |-> NoDest]
  /\ failed = FALSE
  /\ calls = 0

\* The call. With force the cached copy is cleared first.
Begin(u, f) ==
  /\ pc \in {"idle", "returned"} /\ calls < MaxCalls
  /\ url' = u /\ force' = f
  /\ before' = [cached |-> cache[u], dest |-> dest]
  /\ failed' = FALSE
  /\ calls' = calls + 1
  /\ pc' = IF f THEN "clear" ELSE "lookup"
  /\ UNCHANGED <<files, tmp_dir, size>>

\* cachedWget: rm -rf dest_file.
Clear ==
  /\ pc = "clear" /\ pc' = "lookup"
  /\ \/ Succeeds /\ cache' = [cache EXCEPT ![url] = "absent"]
     \/ Fails("rm") /\ UNCHANGED cache
  /\ UNCHANGED <<cache_dir, tmp, dest, call>>

\* Mutant: the archive is downloaded whenever it is installed.
DownloadAlways == TRUE

\* exists(dest_file) is false.
NotCached == cache[url] = "absent"

\* cachedWget: stat. A stat that fails is taken for a missing file.
Lookup ==
  /\ pc = "lookup"
  /\ \/ NotCached /\ Succeeds /\ pc' = "make_cache"
     \/ ~NotCached /\ Succeeds /\ pc' = "pick"
     \/ ~NotCached /\ Fails("stat") /\ pc' = "make_cache"
  /\ UNCHANGED <<files, call>>

\* cachedWget: mkdir -p kWgetCacheDir.
MakeCache ==
  /\ pc = "make_cache" /\ pc' = "wget"
  /\ \/ Succeeds /\ cache_dir' = TRUE
     \/ Fails("mkdir") /\ UNCHANGED cache_dir
  /\ UNCHANGED <<cache, tmp, dest, call>>

\* cachedWget: wget -O dest_file url. A download that fails leaves the file it
\* has opened.
Wget ==
  /\ pc = "wget" /\ pc' = "pick"
  /\ IF cache_dir /\ ~url.slash
     THEN \/ Succeeds /\ cache' = [cache EXCEPT ![url] = "complete"]
          \/ Fails("wget") /\ \E c \in {"partial", cache[url]} :
               cache' = [cache EXCEPT ![url] = c]
     ELSE failed' = TRUE /\ UNCHANGED cache
  /\ UNCHANGED <<cache_dir, tmp, dest, call>>

\* Mutant: the first random name is good enough.
AnyName(n) == TRUE

\* exists(dir) is false.
Unused(n) == n \notin DOMAIN tmp

\* tmpDir: random names are tried until one is not in use.
PickTmp(n) ==
  /\ pc = "pick" /\ pc' = "make_tmp"
  /\ \/ Unused(n) /\ Succeeds
     \/ ~Unused(n) /\ Fails("stat")
  /\ tmp_dir' = n
  /\ UNCHANGED <<files, url, force, size, before, calls>>

\* tmpDir: mkdir -p dir.
MakeTmp ==
  /\ pc = "make_tmp" /\ pc' = "unpack"
  /\ \/ Succeeds /\ tmp' = [n \in DOMAIN tmp \cup {tmp_dir} |->
                               IF n \in DOMAIN tmp THEN tmp[n] ELSE {}]
     \/ Fails("mkdir") /\ UNCHANGED tmp
  /\ UNCHANGED <<cache_dir, cache, dest, call>>

\* tar leaves entries in the temporary directory, on top of what is there.
Unpacks(entries) ==
  tmp' = [tmp EXCEPT ![tmp_dir] =
            {e \in @ : \A x \in entries : e.url # x.url \/ e.index # x.index} \cup entries]

\* tar --extract -C tmp_dir. A truncated file is an error unless it is empty.
Untar ==
  /\ pc = "unpack" /\ url.kind = "tar" /\ pc' = "list"
  /\ IF tmp_dir \in DOMAIN tmp /\ cache[url] # "absent"
     THEN \/ cache[url] = "complete" /\ Succeeds /\ Unpacks(Contents(url))
          \/ cache[url] = "partial" /\ UNCHANGED failed /\ UNCHANGED tmp
          \/ /\ Fails("tar") \/ (cache[url] = "partial" /\ failed' = TRUE)
             /\ UNCHANGED tmp \/ \E k \in 1 .. url.tops : Unpacks(Truncated(url, k))
     ELSE failed' = TRUE /\ UNCHANGED tmp
  /\ UNCHANGED <<cache_dir, cache, dest, call>>

\* unzip without a target: the temporary directory stays empty.
Unzip ==
  /\ pc = "unpack" /\ url.kind = "zip" /\ pc' = "list"
  /\ \/ cache[url] = "complete" /\ Succeeds
     \/ Fails("unzip")
     \/ cache[url] # "complete" /\ failed' = TRUE
  /\ UNCHANGED <<files, call>>

\* boost::split of the listing: there is always a last, empty piece.
SplitSize(lines) == lines + 1

\* What ls -A prints for a directory with these entries.
Lines(entries) == Cardinality({<<e.url, e.index>> : e \in entries})

\* ls -A tmp_dir, split at the line ends.
List ==
  /\ pc = "list" /\ pc' = "move"
  /\ \/ /\ tmp_dir \in DOMAIN tmp /\ Succeeds
        /\ size' = SplitSize(Lines(tmp[tmp_dir]))
     \/ /\ Fails("ls") \/ (tmp_dir \notin DOMAIN tmp /\ failed' = TRUE)
        /\ size' = SplitSize(0)
  /\ UNCHANGED <<files, url, force, tmp_dir, before, calls>>

\* Mutant: the lone directory of an archive is kept.
NeverLone == FALSE

\* The test on the listing for an archive with a single entry. Of an empty
\* listing, tmp_dir + "/" is moved like tmp_dir itself.
Lone == size = 2

\* mv tmp_dir/entry dest or mv tmp_dir dest. A directory that is moved to one
\* that exists is moved into it, and not if its name is taken there.
Move ==
  /\ pc = "move" /\ pc' = "cleanup"
  /\ \/ /\ tmp_dir \in DOMAIN tmp /\ Succeeds
        /\ dest' = IF dest.state = "none"
                   THEN Tree(IF Lone THEN "entry" ELSE "directory", tmp[tmp_dir])
                   ELSE [dest EXCEPT !.inside = TRUE]
        /\ tmp' = IF Lone THEN [tmp EXCEPT ![tmp_dir] = {}]
                  ELSE Restrict(tmp, DOMAIN tmp \ {tmp_dir})
     \/ /\ \/ Fails("mv")
           \/ (tmp_dir \notin DOMAIN tmp \/ dest.inside) /\ failed' = TRUE
        /\ \/ UNCHANGED dest
           \/ /\ dest.state = "none" /\ tmp_dir \in DOMAIN tmp
              /\ dest' = Tree("broken", {})
        /\ UNCHANGED tmp
  /\ UNCHANGED <<cache_dir, cache, call>>

\* rm -rf tmp_dir, and the call returns true.
Cleanup ==
  /\ pc = "cleanup" /\ pc' = "returned"
  /\ \/ Succeeds /\ tmp' = Restrict(tmp, DOMAIN tmp \ {tmp_dir})
     \/ Fails("rm") /\ UNCHANGED tmp
  /\ UNCHANGED <<cache_dir, cache, dest, call>>

\* ETCD::teardown: rm -rf of the destination.
Teardown ==
  /\ pc \in {"idle", "returned"} /\ pc' = "idle"
  /\ dest' = NoDest \/ ("rm" \in Fallible /\ UNCHANGED dest)
  /\ UNCHANGED <<cache_dir, cache, tmp, call, failed>>

\* The program is killed. What its last command left, an outcome of the
\* failure of that command, stays.
Kill ==
  /\ pc \notin {"idle", "returned"} /\ pc' = "idle"
  /\ UNCHANGED <<files, call, failed>>

Next ==
  \/ \E u \in Urls, f \in BOOLEAN : Begin(u, f)
  \/ Clear \/ Lookup \/ MakeCache \/ Wget
  \/ \E n \in TmpNames : PickTmp(n)
  \/ MakeTmp \/ Untar \/ Unzip \/ List \/ Move \/ Cleanup
  \/ Teardown \/ Kill

Spec == Init /\ [][Next]_vars

-----------------------------------------------------------------------------
(***************************************************************************)
(* Properties.                                                             *)
(***************************************************************************)

\* The ranges of the variables; the split listing, whose first element is
\* used, is never empty (Control.cpp:53-57).
TypeOK ==
  /\ cache_dir \in BOOLEAN
  /\ cache \in [Urls -> {"absent", "partial", "complete"}]
  /\ \E names \in SUBSET TmpNames : tmp \in [names -> SUBSET Entry]
  /\ dest \in Destination
  /\ pc \in {"idle", "clear", "lookup", "make_cache", "wget", "pick", "make_tmp", "unpack",
             "list", "move", "cleanup", "returned"}
  /\ url \in Urls /\ force \in BOOLEAN /\ tmp_dir \in TmpNames
  /\ size \in Nat \ {0}
  /\ before \in [cached : {"absent", "partial", "complete"}, dest : Destination]
  /\ failed \in BOOLEAN
  /\ calls \in 0 .. MaxCalls

\* A call whose commands all succeeded has put exactly the archive at a free
\* destination, whatever earlier calls, failed downloads and kills have left
\* in the temporary directories; unless it found a partial copy in the cache
\* and was not forced to clear it. A zip leaves an empty directory. A
\* destination that was there keeps its files, the archive goes into it
\* (Control.cpp:37-65).
InstalledTree ==
  pc = "returned" /\ ~failed /\ (before.cached # "partial" \/ force) =>
    dest = IF before.dest.state # "none" THEN [before.dest EXCEPT !.inside = TRUE]
           ELSE IF url.kind = "zip"      THEN Tree("directory", {})
           ELSE Installed(url)

\* The directory an archive is unpacked in is empty, so that archives are
\* never mixed: leftovers of calls that were killed are in directories of
\* other names (Control.cpp:7-14).
FreshTmp ==
  pc = "unpack" /\ ~failed => tmp_dir \in DOMAIN tmp /\ tmp[tmp_dir] = {}

\* What is once in the cache stays as it is, a complete archive as well as a
\* partial one, until a call is forced to clear it or a stat fails
\* (Control.cpp:20-35).
CacheKept ==
  [][\A u \in Urls : cache[u] # "absent" /\ cache'[u] # cache[u] =>
       u = url /\ (force \/ failed)]_vars

\* LOG4CPLUS_ASSERT(logger, result.size() == 0) (Control.cpp:55).
AssertionHolds == pc = "move" => size = 0
=============================================================================
