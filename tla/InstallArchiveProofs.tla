------------------------- MODULE InstallArchiveProofs -------------------------
(***************************************************************************)
(* Proofs about InstallArchive, for any finite set of archives with any    *)
(* number of top-level entries, any number of calls, and any commands that *)
(* may fail.                                                               *)
(***************************************************************************)
EXTENDS InstallArchive, FiniteSetTheorems, TLAPS

-----------------------------------------------------------------------------
(***************************************************************************)
(* The listing of a directory.                                             *)
(***************************************************************************)

\* The entries of a complete archive are entries, and so are those of one
\* that was unpacked in part (Control.cpp:45).
LEMMA UnpackedAreEntries ==
  ASSUME NEW u \in Urls
  PROVE  /\ Contents(u) \subseteq Entry
         /\ \A k \in 1 .. u.tops : Truncated(u, k) \subseteq Entry
<1>1. u.tops \in Nat
  BY UrlAssumption
<1>2. [url : {u}, index : 1 .. u.tops, part : {"all", "some"}] \subseteq Entry
  BY DEF Entry
<1> QED BY <1>1, <1>2 DEF Contents, Truncated

\* A listing has a finite number of lines, so that its split has one at
\* least (Control.cpp:53).
LEMMA LinesType ==
  ASSUME NEW entries \in SUBSET Entry
  PROVE  Lines(entries) \in Nat
<1> DEFINE Pairs == UNION {{u} \X (1 .. u.tops) : u \in Urls}
<1>1. IsFiniteSet({{u} \X (1 .. u.tops) : u \in Urls})
  <2> DEFINE f == [u \in Urls |-> {u} \X (1 .. u.tops)]
  <2>1. f \in Surjection(Urls, {{u} \X (1 .. u.tops) : u \in Urls})
    BY DEF Surjection
  <2> QED BY <2>1, FS_Surjection, UrlAssumption
<1>2. ASSUME NEW u \in Urls
      PROVE  IsFiniteSet({u} \X (1 .. u.tops))
  <2>1. u.tops \in Nat
    BY UrlAssumption
  <2>2. IsFiniteSet(1 .. u.tops)
    BY <2>1, FS_Interval
  <2>3. IsFiniteSet({u})
    BY FS_Singleton
  <2> QED BY <2>2, <2>3, FS_Product
<1>3. IsFiniteSet(Pairs)
  <2>1. \A T \in {{u} \X (1 .. u.tops) : u \in Urls} : IsFiniteSet(T)
    BY <1>2
  <2> QED BY <1>1, <2>1, FS_UNION
<1>4. {<<e.url, e.index>> : e \in entries} \subseteq Pairs
  BY DEF Entry
<1>5. IsFiniteSet({<<e.url, e.index>> : e \in entries})
  BY <1>3, <1>4, FS_Subset
<1> QED BY <1>5, FS_CardinalityType DEF Lines

\* The listing of a complete archive has a line for each top-level entry.
LEMMA LinesOfContents ==
  ASSUME NEW u \in Urls
  PROVE  Lines(Contents(u)) = u.tops
<1> DEFINE T == {<<e.url, e.index>> : e \in Contents(u)}
<1>1. u.tops \in Nat
  BY UrlAssumption
<1>2. T = {<<u, i>> : i \in 1 .. u.tops}
  <2>1. ASSUME NEW i \in 1 .. u.tops
        PROVE  <<u, i>> \in T
    <3>1. [url |-> u, index |-> i, part |-> "all"] \in Contents(u)
      BY DEF Contents
    <3> QED BY <3>1
  <2> QED BY <2>1 DEF Contents
<1>3. ExistsBijection(1 .. u.tops, T)
  <2> DEFINE f == [i \in 1 .. u.tops |-> <<u, i>>]
  <2>1. f \in Injection(1 .. u.tops, T)
    BY <1>2 DEF Injection, IsInjective
  <2>2. f \in Surjection(1 .. u.tops, T)
    BY <1>2 DEF Surjection
  <2> QED BY <2>1, <2>2 DEF ExistsBijection, Bijection
<1>4. IsFiniteSet(1 .. u.tops) /\ Cardinality(1 .. u.tops) = u.tops
  <2>1. /\ IsFiniteSet(1 .. u.tops)
        /\ Cardinality(1 .. u.tops) = IF 1 > u.tops THEN 0 ELSE u.tops - 1 + 1
    BY <1>1, FS_Interval
  <2> QED BY <1>1, <2>1
<1> QED BY <1>3, <1>4, FS_Bijection DEF Lines

\* Nothing is listed of an empty directory.
LEMMA LinesOfNothing == Lines({}) = 0
BY FS_EmptySet DEF Lines

-----------------------------------------------------------------------------
(***************************************************************************)
(* The inductive invariant. Stage says, for each command, what those       *)
(* before it have left if none of them failed.                             *)
(***************************************************************************)
Unpacked == IF url.kind = "zip" THEN {} ELSE Contents(url)

Delivered ==
  IF before.dest.state # "none" THEN [before.dest EXCEPT !.inside = TRUE]
  ELSE IF url.kind = "zip"      THEN Tree("directory", {})
  ELSE Installed(url)

\* The archive came from a good copy: no command failed, and no partial copy
\* was taken from the cache.
Good == ~failed /\ (before.cached # "partial" \/ force)

Stage ==
  /\ pc \in {"clear", "lookup", "make_cache", "wget", "pick", "make_tmp", "unpack", "list", "move"}
       => dest = before.dest
  /\ pc = "clear" => force
  /\ pc = "lookup" /\ ~failed =>
       IF force THEN cache[url] = "absent" ELSE cache[url] = before.cached
  /\ pc \in {"make_cache", "wget"} /\ ~failed => cache[url] = "absent"
  /\ pc = "wget" /\ ~failed => cache_dir
  /\ pc \in {"pick", "make_tmp", "unpack"} /\ Good => cache[url] = "complete"
  /\ pc = "make_tmp" /\ ~failed => tmp_dir \notin DOMAIN tmp
  /\ pc = "unpack" /\ ~failed => tmp_dir \in DOMAIN tmp /\ tmp[tmp_dir] = {}
  /\ pc \in {"list", "move"} /\ Good => tmp_dir \in DOMAIN tmp /\ tmp[tmp_dir] = Unpacked
  /\ pc = "move" /\ Good => size = Lines(Unpacked) + 1
  /\ pc \in {"cleanup", "returned"} /\ Good => dest = Delivered

IInv == TypeOK /\ Stage

-----------------------------------------------------------------------------
(***************************************************************************)
(* Every action preserves it.                                              *)
(***************************************************************************)

\* The state in which a Runner finds a node that was never used.
LEMMA InitIInv == Init => IInv
<1> SUFFICES ASSUME Init PROVE IInv
  OBVIOUS
<1>1. tmp \in [{} -> SUBSET Entry]
  BY DEF Init
<1>2. NoDest \in Destination
  BY DEF NoDest, Destination
<1>3. TypeOK
  <2>1. cache \in [Urls -> {"absent", "partial", "complete"}]
    BY DEF Init
  <2>2. \E names \in SUBSET TmpNames : tmp \in [names -> SUBSET Entry]
    <3>1. {} \in SUBSET TmpNames
      OBVIOUS
    <3> QED BY <1>1, <3>1
  <2>3. /\ dest \in Destination
        /\ before \in [cached : {"absent", "partial", "complete"}, dest : Destination]
    BY <1>2 DEF Init
  <2>4. calls \in 0 .. MaxCalls
    BY UrlAssumption DEF Init
  <2>5. /\ cache_dir \in BOOLEAN /\ pc = "idle"
        /\ url \in Urls /\ force \in BOOLEAN /\ tmp_dir \in TmpNames
        /\ failed \in BOOLEAN
    BY Zenon DEF Init
  <2>6. size \in Nat \ {0}
    <3>1. size = 1
      BY Zenon DEF Init
    <3> QED BY <3>1
  <2> QED BY <2>1, <2>2, <2>3, <2>4, <2>5, <2>6 DEF TypeOK
<1> QED BY <1>3 DEF IInv, Init, Stage

\* installArchive is called (Control.cpp:37).
LEMMA BeginIInv ==
  ASSUME IInv, NEW u \in Urls, NEW f \in BOOLEAN, Begin(u, f)
  PROVE  IInv'
<1> USE DEF IInv, Begin, files
<1>1. TypeOK'
  <2>1. calls' \in 0 .. MaxCalls
    BY UrlAssumption DEF TypeOK
  <2>2. cache[u] \in {"absent", "partial", "complete"}
    BY DEF TypeOK
  <2> QED BY <2>1, <2>2 DEF TypeOK
<1>2. Stage'
  BY DEF Stage, Good
<1> QED BY <1>1, <1>2

\* The cached copy is removed (Control.cpp:26).
LEMMA ClearIInv == ASSUME IInv, Clear PROVE IInv'
<1> USE DEF IInv, Clear, call, Succeeds, Fails
<1>1. TypeOK'
  BY DEF TypeOK
<1>2. Stage'
  BY DEF Stage, TypeOK, Good
<1> QED BY <1>1, <1>2

\* The cache is looked up (Control.cpp:28).
LEMMA LookupIInv == ASSUME IInv, Lookup PROVE IInv'
<1> USE DEF IInv, Lookup, files, call, Succeeds, Fails, NotCached
<1>1. TypeOK'
  BY DEF TypeOK
<1>2. Stage'
  BY DEF Stage, TypeOK, Good
<1> QED BY <1>1, <1>2

\* The cache directory is made (Control.cpp:30).
LEMMA MakeCacheIInv == ASSUME IInv, MakeCache PROVE IInv'
<1> USE DEF IInv, MakeCache, call, Succeeds, Fails
<1>1. TypeOK'
  BY DEF TypeOK
<1>2. Stage'
  BY DEF Stage, Good
<1> QED BY <1>1, <1>2

\* The archive is downloaded (Control.cpp:32).
LEMMA WgetIInv == ASSUME IInv, Wget PROVE IInv'
<1> USE DEF IInv, Wget, call, Succeeds, Fails
<1>1. TypeOK'
  BY DEF TypeOK
<1>2. Stage'
  BY DEF Stage, TypeOK, Good
<1> QED BY <1>1, <1>2

\* A temporary directory is chosen (Control.cpp:8-11).
LEMMA PickTmpIInv ==
  ASSUME IInv, NEW n \in TmpNames, PickTmp(n)
  PROVE  IInv'
<1> USE DEF IInv, PickTmp, files, Succeeds, Fails, Unused
<1>1. TypeOK'
  BY DEF TypeOK
<1>2. Stage'
  BY DEF Stage, Good
<1> QED BY <1>1, <1>2

\* The temporary directory is made (Control.cpp:12).
LEMMA MakeTmpIInv == ASSUME IInv, MakeTmp PROVE IInv'
<1> USE DEF IInv, MakeTmp, call, Succeeds, Fails
<1>1. TypeOK'
  <2>1. PICK names \in SUBSET TmpNames : tmp \in [names -> SUBSET Entry]
    BY DEF TypeOK
  <2>2. \E S \in SUBSET TmpNames : tmp' \in [S -> SUBSET Entry]
    <3>1. CASE UNCHANGED tmp
      BY <2>1, <3>1
    <3>2. CASE tmp' = [n \in DOMAIN tmp \cup {tmp_dir} |->
                         IF n \in DOMAIN tmp THEN tmp[n] ELSE {}]
      <4>1. DOMAIN tmp = names /\ tmp_dir \in TmpNames
        BY <2>1 DEF TypeOK
      <4>2. tmp' \in [names \cup {tmp_dir} -> SUBSET Entry]
        BY <2>1, <3>2, <4>1
      <4> QED BY <4>1, <4>2
    <3> QED BY <3>1, <3>2
  <2> QED BY <2>2 DEF TypeOK
<1>2. Stage'
  BY DEF Stage, Good
<1> QED BY <1>1, <1>2

\* The archive is unpacked with tar (Control.cpp:45-46): a good copy into an
\* empty directory gives its contents.
LEMMA UntarIInv == ASSUME IInv, Untar PROVE IInv'
<1> USE DEF IInv, Untar, call, Succeeds, Fails
<1>1. PICK names \in SUBSET TmpNames : tmp \in [names -> SUBSET Entry]
  BY DEF TypeOK
<1>2. url \in Urls
  BY DEF TypeOK
<1>3. ASSUME NEW entries \in SUBSET Entry, Unpacks(entries)
      PROVE  tmp' \in [names -> SUBSET Entry]
  BY <1>1, <1>3 DEF Unpacks
<1>4. tmp' \in [names -> SUBSET Entry]
  <2>1. CASE UNCHANGED tmp
    BY <1>1, <2>1
  <2>2. CASE Unpacks(Contents(url))
    BY <1>2, <1>3, <2>2, UnpackedAreEntries
  <2>3. CASE \E k \in 1 .. url.tops : Unpacks(Truncated(url, k))
    BY <1>2, <1>3, <2>3, UnpackedAreEntries
  <2> QED BY <2>1, <2>2, <2>3
<1>5. TypeOK'
  BY <1>4 DEF TypeOK
<1>6. Good' => tmp_dir \in DOMAIN tmp' /\ tmp'[tmp_dir] = Contents(url)
  <2> SUFFICES ASSUME Good' PROVE tmp_dir \in DOMAIN tmp' /\ tmp'[tmp_dir] = Contents(url)
    OBVIOUS
  <2>1. Good /\ cache[url] = "complete" /\ tmp_dir \in DOMAIN tmp /\ tmp[tmp_dir] = {}
    BY DEF Good, Stage, TypeOK
  <2>2. Unpacks(Contents(url))
    BY <2>1 DEF Good
  <2> QED BY <1>1, <2>1, <2>2 DEF Unpacks
<1>7. Stage'
  <2>1. Good' => tmp'[tmp_dir] = Unpacked'
    <3>1. url' = url /\ url.kind = "tar"
      OBVIOUS
    <3>2. Unpacked' = Contents(url)
      BY <3>1 DEF Unpacked, Contents
    <3> QED BY <1>6, <3>2
  <2>2. pc' = "list" /\ dest' = dest /\ before' = before /\ tmp_dir' = tmp_dir
          /\ dest = before.dest
    BY DEF Stage
  <2> QED BY <1>6, <2>1, <2>2 DEF Stage
<1> QED BY <1>5, <1>7

\* A zip file is unpacked somewhere else (Control.cpp:42).
LEMMA UnzipIInv == ASSUME IInv, Unzip PROVE IInv'
<1> USE DEF IInv, Unzip, files, call, Succeeds, Fails
<1>1. TypeOK'
  BY DEF TypeOK
<1>2. Stage'
  BY DEF Stage, Good, Unpacked
<1> QED BY <1>1, <1>2

\* The temporary directory is listed (Control.cpp:51-53).
LEMMA ListIInv == ASSUME IInv, List PROVE IInv'
<1> USE DEF IInv, List, files, Succeeds, Fails, SplitSize
<1>1. size' \in Nat \ {0}
  <2>1. tmp_dir \in DOMAIN tmp => tmp[tmp_dir] \in SUBSET Entry
    BY DEF TypeOK
  <2>2. tmp_dir \in DOMAIN tmp => Lines(tmp[tmp_dir]) \in Nat
    BY <2>1, LinesType
  <2> QED BY <2>2
<1>2. TypeOK'
  BY <1>1 DEF TypeOK
<1>3. Stage'
  <2>1. Unpacked' = Unpacked /\ (Good' => Good)
    BY DEF Unpacked, Good, Contents
  <2>2. Good' => size' = Lines(Unpacked) + 1
    BY <2>1 DEF Stage, Good
  <2>3. Lines(Unpacked)' = Lines(Unpacked)
    BY <2>1 DEF Lines
  <2> QED BY <2>1, <2>2, <2>3 DEF Stage
<1> QED BY <1>2, <1>3

\* The archive is moved to its destination (Control.cpp:56-61).
LEMMA MoveIInv == ASSUME IInv, Move PROVE IInv'
<1> USE DEF IInv, Move, call, Succeeds, Fails
<1>1. PICK names \in SUBSET TmpNames : tmp \in [names -> SUBSET Entry]
  BY DEF TypeOK
<1>2. url \in Urls /\ url' = url
  BY DEF TypeOK
<1>3. TypeOK'
  <2>1. \E S \in SUBSET TmpNames : tmp' \in [S -> SUBSET Entry]
    <3>1. CASE UNCHANGED tmp
      BY <1>1, <3>1
    <3>2. CASE tmp' = [tmp EXCEPT ![tmp_dir] = {}]
      BY <1>1, <3>2
    <3>3. CASE tmp' = Restrict(tmp, DOMAIN tmp \ {tmp_dir})
      <4>1. tmp' \in [names \ {tmp_dir} -> SUBSET Entry]
        BY <1>1, <3>3 DEF Restrict
      <4> QED BY <4>1
    <3> QED BY <3>1, <3>2, <3>3
  <2>2. dest' \in Destination
    <3>1. dest \in Destination
      BY DEF TypeOK
    <3>2. tmp_dir \in DOMAIN tmp => tmp[tmp_dir] \subseteq Entry
      BY <1>1
    <3>3. [dest EXCEPT !.inside = TRUE] \in Destination
      BY <3>1 DEF Destination
    <3>4. ASSUME NEW s \in {"entry", "directory", "broken"}, NEW E \in SUBSET Entry
          PROVE  Tree(s, E) \in Destination
      BY DEF Tree, Destination
    <3>5. Tree("broken", {}) \in Destination
      BY <3>4
    <3>6. tmp_dir \in DOMAIN tmp =>
            Tree(IF Lone THEN "entry" ELSE "directory", tmp[tmp_dir]) \in Destination
      BY <3>2, <3>4
    <3> QED BY <3>1, <3>3, <3>5, <3>6
  <2> QED BY <2>1, <2>2 DEF TypeOK
<1>4. Good' => dest' = Delivered
  <2> SUFFICES ASSUME Good' PROVE dest' = Delivered
    OBVIOUS
  <2>1. /\ dest = before.dest /\ tmp_dir \in DOMAIN tmp
        /\ tmp[tmp_dir] = Unpacked /\ size = Lines(Unpacked) + 1
    BY DEF Good, Stage
  <2>2. dest' = IF dest.state = "none"
                THEN Tree(IF Lone THEN "entry" ELSE "directory", Unpacked)
                ELSE [dest EXCEPT !.inside = TRUE]
    BY <2>1 DEF Good
  <2>3. CASE url.kind = "zip"
    <3>1. ~Lone
      BY <2>1, <2>3, LinesOfNothing DEF Unpacked, Lone
    <3> QED BY <2>1, <2>2, <2>3, <3>1 DEF Delivered, Unpacked
  <2>4. CASE url.kind # "zip"
    <3>1. Unpacked = Contents(url) /\ Lines(Unpacked) = url.tops /\ url.tops \in Nat
      BY <1>2, <2>4, LinesOfContents, UrlAssumption DEF Unpacked
    <3>2. Lone <=> url.tops = 1
      BY <2>1, <3>1 DEF Lone
    <3> QED BY <2>1, <2>2, <2>4, <3>1, <3>2 DEF Delivered, Installed
  <2> QED BY <2>3, <2>4
<1>5. Stage'
  <2>1. Delivered' = Delivered
    BY DEF Delivered, Installed, Contents, Tree
  <2> QED BY <1>4, <2>1 DEF Stage
<1> QED BY <1>3, <1>5

\* The temporary directory is removed (Control.cpp:63).
LEMMA CleanupIInv == ASSUME IInv, Cleanup PROVE IInv'
<1> USE DEF IInv, Cleanup, call, Succeeds, Fails
<1>1. TypeOK'
  <2>1. PICK names \in SUBSET TmpNames : tmp \in [names -> SUBSET Entry]
    BY DEF TypeOK
  <2>2. \E S \in SUBSET TmpNames : tmp' \in [S -> SUBSET Entry]
    <3>1. CASE UNCHANGED tmp
      BY <2>1, <3>1
    <3>2. CASE tmp' = Restrict(tmp, DOMAIN tmp \ {tmp_dir})
      <4>1. tmp' \in [names \ {tmp_dir} -> SUBSET Entry]
        BY <2>1, <3>2 DEF Restrict
      <4> QED BY <4>1
    <3> QED BY <3>1, <3>2
  <2> QED BY <2>2 DEF TypeOK
<1>2. Stage'
  <2>1. Delivered' = Delivered /\ (Good' => Good)
    BY DEF Delivered, Installed, Contents, Tree, Good
  <2> QED BY <2>1 DEF Stage
<1> QED BY <1>1, <1>2

\* The test removes the destination (ETCD.cpp:75), or the program is killed.
LEMMA BetweenCallsIInv == ASSUME IInv, Teardown \/ Kill PROVE IInv'
<1> USE DEF IInv, Teardown, Kill, files, call
<1>1. TypeOK'
  <2>1. NoDest \in Destination
    BY DEF NoDest, Destination
  <2>2. dest' \in Destination
    BY <2>1 DEF TypeOK
  <2> QED BY <2>2 DEF TypeOK
<1>2. Stage'
  BY DEF Stage
<1> QED BY <1>1, <1>2

\* The invariant holds of the specification.
THEOREM Inductive == Spec => []IInv
<1>1. IInv /\ [Next]_vars => IInv'
  <2> SUFFICES ASSUME IInv, [Next]_vars PROVE IInv'
    OBVIOUS
  <2>1. CASE \E u \in Urls, f \in BOOLEAN : Begin(u, f)
    BY <2>1, BeginIInv
  <2>2. CASE Clear
    BY <2>2, ClearIInv
  <2>3. CASE Lookup
    BY <2>3, LookupIInv
  <2>4. CASE MakeCache
    BY <2>4, MakeCacheIInv
  <2>5. CASE Wget
    BY <2>5, WgetIInv
  <2>6. CASE \E n \in TmpNames : PickTmp(n)
    BY <2>6, PickTmpIInv
  <2>7. CASE MakeTmp
    BY <2>7, MakeTmpIInv
  <2>8. CASE Untar
    BY <2>8, UntarIInv
  <2>9. CASE Unzip
    BY <2>9, UnzipIInv
  <2>10. CASE List
    BY <2>10, ListIInv
  <2>11. CASE Move
    BY <2>11, MoveIInv
  <2>12. CASE Cleanup
    BY <2>12, CleanupIInv
  <2>13. CASE Teardown \/ Kill
    BY <2>13, BetweenCallsIInv
  <2>14. CASE UNCHANGED vars
    BY <2>14 DEF vars, files, call, IInv, TypeOK, Stage, Good, Unpacked, Delivered, Lines,
                 Installed, Contents, Tree
  <2> QED
    BY <2>1, <2>2, <2>3, <2>4, <2>5, <2>6, <2>7, <2>8, <2>9, <2>10, <2>11, <2>12, <2>13,
       <2>14 DEF Next
<1> QED BY InitIInv, <1>1, PTL DEF Spec

-----------------------------------------------------------------------------
(***************************************************************************)
(* What follows from it.                                                   *)
(***************************************************************************)

\* Type correctness; a split listing is never empty (Control.cpp:53-57).
THEOREM TypeCorrect == Spec => []TypeOK
BY Inductive, PTL DEF IInv

\* A call of which no command failed has put exactly the archive at its
\* destination (Control.cpp:37-65), whatever was left on the node before.
THEOREM ArchiveIsInstalled == Spec => []InstalledTree
<1>1. IInv => InstalledTree
  BY DEF IInv, Stage, Good, Delivered, InstalledTree
<1> QED BY Inductive, <1>1, PTL

\* Archives are unpacked into empty directories (Control.cpp:7-14).
THEOREM NothingIsMixed == Spec => []FreshTmp
<1>1. IInv => FreshTmp
  BY DEF IInv, Stage, FreshTmp
<1> QED BY Inductive, <1>1, PTL

\* Cached copies, good or bad, are kept (Control.cpp:20-35).
THEOREM CacheIsKept == Spec => CacheKept
<1>1. IInv /\ [Next]_vars =>
        [\A u \in Urls : cache[u] # "absent" /\ cache'[u] # cache[u] =>
           u = url /\ (force \/ failed)]_vars
  <2> SUFFICES ASSUME IInv, Next, NEW u \in Urls, cache[u] # "absent", cache'[u] # cache[u]
               PROVE  u = url /\ (force \/ failed)
    OBVIOUS
  <2>1. cache \in [Urls -> {"absent", "partial", "complete"}]
    BY DEF IInv, TypeOK
  <2>2. Clear \/ Wget
    BY DEF Next, Begin, Lookup, MakeCache, PickTmp, MakeTmp, Untar, Unzip, List, Move, Cleanup,
           Teardown, Kill, files
  <2>3. CASE Clear
    BY <2>1, <2>3 DEF Clear, IInv, Stage
  <2>4. CASE Wget
    BY <2>1, <2>4 DEF Wget, IInv, Stage
  <2> QED BY <2>2, <2>3, <2>4
<1> QED BY Inductive, <1>1, PTL DEF Spec, CacheKept
==============================================================================
