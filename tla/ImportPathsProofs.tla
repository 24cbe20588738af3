--------------------------- MODULE ImportPathsProofs ---------------------------
(***************************************************************************)
(* Whatever files import, a shared library stays among shared libraries,   *)
(* a render sees one version of each file, an import gives the file that   *)
(* the documentation names, and the command line imports the same: for all *)
(* libraries and all statements.                                           *)
(***************************************************************************)
EXTENDS ImportPaths, SequenceTheorems, TLAPS

------------------------------------------------------------------------------
(* Paths *)

LEMMA SingleType ==
  ASSUME NEW S, NEW x \in S
  PROVE  <<x>> \in Seq(S) /\ Len(<<x>>) = 1
  OBVIOUS

LEMMA PrependType ==
  ASSUME NEW S, NEW x \in S, NEW s \in Seq(S)
  PROVE  <<x>> \o s \in Seq(S) /\ Len(<<x>> \o s) = 1 + Len(s)
  OBVIOUS

LEMMA ConcatType ==
  ASSUME NEW S, NEW r \in Seq(S), NEW s \in Seq(S)
  PROVE  r \o s \in Seq(S) /\ Len(r \o s) = Len(r) + Len(s)
  OBVIOUS

LEMMA SequenceTypes ==
  /\ Template \in Seq(Segments) /\ Builtin \in Seq(Segments) /\ <<>> \in Seq(Segments)
  /\ Failure \in Result /\ FoundBuiltin \in Result
  /\ Len(Builtin) = 1
<1>1. "" \in Segments /\ "espejote.libsonnet" \in Segments
  BY SegmentAssumption
<1>2. <<"">> \in Seq(Segments) /\ <<"espejote.libsonnet">> \in Seq(Segments)
  BY <1>1, SingleType
<1>3. <<>> \in Seq(Segments)
  OBVIOUS
<1> QED
  BY <1>2, <1>3 DEF Template, Builtin, Failure, Found, FoundBuiltin, Result

LEMMA WithoutDotType ==
  ASSUME NEW s \in Statements
  PROVE  WithoutDot(s) \in Seq(Segments) /\ Len(WithoutDot(s)) > 0
<1>1. s \in Seq(Segments) /\ Len(s) > 0
  BY StatementAssumption
<1>2. CASE Len(s) > 1 /\ s[1] = "."
  <2>1. Tail(s) \in Seq(Segments) /\ Len(Tail(s)) = Len(s) - 1
    BY <1>1, <1>2
  <2> QED
    BY <1>1, <1>2, <2>1 DEF WithoutDot
<1>3. CASE ~(Len(s) > 1 /\ s[1] = ".")
  BY <1>1, <1>3 DEF WithoutDot
<1> QED
  BY <1>2, <1>3

LEMMA DirectoryType ==
  ASSUME NEW path \in Seq(Segments)
  PROVE  Directory(path) \in Seq(Segments)
<1>1. CASE Len(path) = 1
  BY <1>1, SegmentAssumption, SingleType DEF Directory
<1>2. CASE Len(path) # 1
  BY <1>2 DEF Directory
<1> QED
  BY <1>1, <1>2

LEMMA AbsoluteType ==
  ASSUME NEW from \in Seq(Segments), NEW s \in Statements
  PROVE  MakeAbsoluteImportPath(from, s) \in Seq(Segments)
<1> DEFINE path == WithoutDot(s)
<1>1. path \in Seq(Segments) /\ Directory(from) \in Seq(Segments)
  BY WithoutDotType, DirectoryType
<1>2. /\ Directory(from) \o path \in Seq(Segments)
      /\ <<"lib">> \o path \in Seq(Segments)
  BY <1>1, SegmentAssumption, PrependType, ConcatType
<1> HIDE DEF path
<1> QED
  BY <1>1, <1>2 DEF MakeAbsoluteImportPath, path

\* A file of a shared library imports no file that is called by two segments.
LEMMA SharedImportsShared ==
  ASSUME NEW from \in Seq(Segments), NEW s \in Statements,
         Len(from) = 3, from[1] = "lib"
  PROVE  Len(MakeAbsoluteImportPath(from, s)) # 2
<1> DEFINE path == WithoutDot(s)
<1>1. path \in Seq(Segments) /\ Len(path) \in Nat
  BY WithoutDotType
<1>2. InLib(from) /\ Directory(from) = SubSeq(from, 1, 2)
  BY DEF InLib, Directory
<1>3. Len(SubSeq(from, 1, 2)) = 2 /\ SubSeq(from, 1, 2) \in Seq(Segments)
  OBVIOUS
<1>4. /\ Len(SubSeq(from, 1, 2) \o path) = 2 + Len(path)
      /\ Len(<<"lib">> \o path) = 1 + Len(path)
  <2>1. "lib" \in Segments
    BY SegmentAssumption
  <2> HIDE DEF path
  <2>2. Len(<<"lib">> \o path) = 1 + Len(path)
    BY <1>1, <2>1, PrependType
  <2>3. Len(SubSeq(from, 1, 2) \o path) = 2 + Len(path)
    BY <1>1, <1>3, ConcatType
  <2> QED
    BY <2>2, <2>3
<1> HIDE DEF path
<1>5. CASE Len(path) = 1
  BY <1>2, <1>4, <1>5 DEF MakeAbsoluteImportPath, path
<1>6. CASE Len(path) = 2
  BY <1>2, <1>4, <1>6 DEF MakeAbsoluteImportPath, path
<1>7. CASE Len(path) # 1 /\ Len(path) # 2
  BY <1>7 DEF MakeAbsoluteImportPath, path
<1> QED
  BY <1>5, <1>6, <1>7

\* What is found on the cluster is a file of the local namespace, if there is
\* one, or of a shared library.
FileOf(r, path) ==
  /\ r.ok /\ r.foundAt = path
  /\ \/ /\ Len(path) = 2 /\ namespace # NoNamespace /\ path[1] \in Names
        /\ r.file = <<namespace, path[1], path[2]>>
     \/ /\ Len(path) = 3 /\ path[1] = "lib"
        /\ r.file = <<LibraryNamespace, path[2], path[3]>>

LEMMA Loaded ==
  ASSUME TypeOK, NEW path \in Seq(Segments)
  PROVE  /\ LoadFromCluster(path) \in Result
         /\ LoadFromCluster(path) = Failure \/ FileOf(LoadFromCluster(path), path)
<1>1. ASSUME NEW ns, NEW name, NEW key
      PROVE  LET r == LoadKey(ns, name, key, path) IN
             /\ r \in Result
             /\ \/ r = Failure
                \/ /\ r.ok /\ r.foundAt = path /\ name \in Names
                   /\ r.file = <<ns, name, key>>
  <2>1. CASE /\ <<ns, name>> \in DOMAIN libraries
             /\ key \in libraries[<<ns, name>>].keys
    <3>1. /\ libraries[<<ns, name>>].version \in Nat
          /\ ns \in Namespaces /\ name \in Names /\ key \in Keys
      BY <2>1 DEF TypeOK, Library
    <3> QED
      BY <2>1, <3>1 DEF LoadKey, Found, Failure, Result, File
  <2>2. CASE ~(/\ <<ns, name>> \in DOMAIN libraries
               /\ key \in libraries[<<ns, name>>].keys)
    BY <2>2, SequenceTypes DEF LoadKey
  <2> QED
    BY <2>1, <2>2
<1>2. Failure \in Result
  BY SequenceTypes
<1>3. CASE Len(path) = 2 /\ namespace # NoNamespace
  BY <1>1, <1>3 DEF LoadFromCluster, FileOf
<1>4. CASE Len(path) = 3 /\ path[1] = "lib"
  BY <1>1, <1>4 DEF LoadFromCluster, FileOf
<1>5. CASE /\ ~(Len(path) = 2 /\ namespace # NoNamespace)
           /\ ~(Len(path) = 3 /\ path[1] = "lib")
  BY <1>2, <1>5 DEF LoadFromCluster
<1> QED
  BY <1>3, <1>4, <1>5

------------------------------------------------------------------------------
(* The invariant *)

\* The cache holds errors and files, each at its path; what an import was
\* answered is still in it; nothing local comes out of a shared library.
CacheHolds ==
  \A path \in DOMAIN cache :
    cache[path] = Failure \/ FileOf(cache[path], path)

Answers(m) ==
  \/ m.result = Failure
  \/ m.result = FoundBuiltin
  \/ /\ m.result.foundAt \in DOMAIN cache
     /\ cache[m.result.foundAt] = m.result
     /\ FileOf(m.result, m.result.foundAt)
     /\ Shared(m.from) => Len(m.result.foundAt) = 3

Inv ==
  /\ TypeOK
  /\ CacheHolds
  /\ \A m \in made : Answers(m)

\* What the importer does for one statement.
LEMMA ImportKeepsInv ==
  ASSUME Inv, NEW from, NEW s \in Statements, from \in Files, Import(from, s)
  PROVE  Inv'
<1>a. PICK path : path = MakeAbsoluteImportPath(from, s)
  OBVIOUS
<1>b. PICK result :
        result = IF s = Builtin THEN FoundBuiltin
                 ELSE IF path \in DOMAIN cache THEN cache[path]
                 ELSE LoadFromCluster(path)
  OBVIOUS
<1>c. PICK m0 : m0 = [from |-> from, statement |-> s, result |-> result]
  OBVIOUS
<1>1. from \in Seq(Segments) /\ from # Builtin
  BY SequenceTypes DEF Import, Importing, Files, Inv, TypeOK, Result
<1>2. path \in Seq(Segments)
  BY <1>1, <1>a, AbsoluteType
<1>3. /\ result \in Result
      /\ \/ (s = Builtin /\ result = FoundBuiltin)
         \/ (s # Builtin /\ (result = Failure \/ FileOf(result, path)))
  BY <1>2, <1>b, Loaded, SequenceTypes DEF Inv, TypeOK, CacheHolds
<1>4. /\ UNCHANGED <<namespace, libraries, changes>> /\ pc = "rendering"
      /\ made' = made \cup {m0}
      /\ pc' \in {"rendering", "failed"}
  BY <1>a, <1>b, <1>c DEF Import, Importing, Answered
<1>5. /\ s = Builtin => cache' = cache
      /\ s # Builtin =>
           /\ DOMAIN cache' = DOMAIN cache \cup {path}
           /\ cache'[path] = result
           /\ \A p \in DOMAIN cache : p # path => cache'[p] = cache[p]
           /\ path \in DOMAIN cache => cache'[path] = cache[path]
  BY <1>a, <1>b DEF Import
<1>6. \A p \in DOMAIN cache' :
        \/ (p \in DOMAIN cache /\ cache'[p] = cache[p])
        \/ (p = path /\ s # Builtin /\ cache'[p] = result)
  BY <1>5
<1>7. TypeOK'
  <2>1. \A p \in DOMAIN cache' :
          /\ p \in Seq(Segments) /\ cache'[p] \in Result
          /\ cache'[p].ok => cache'[p].foundAt = p
    BY <1>2, <1>3, <1>6 DEF Inv, TypeOK, FileOf, Failure
  <2>2. m0 \in [from : Seq(Segments), statement : Statements, result : Result]
    BY <1>1, <1>3, <1>c
  <2> QED
    BY <1>4, <2>1, <2>2 DEF Inv, TypeOK
<1>8. CacheHolds'
  BY <1>3, <1>4, <1>6 DEF Inv, CacheHolds, FileOf
<1>9. ASSUME NEW m \in made PROVE Answers(m)'
  <2>1. Answers(m)
    BY DEF Inv
  <2>2. \A p \in DOMAIN cache : p \in DOMAIN cache' /\ cache'[p] = cache[p]
    <3>1. CASE s = Builtin
      BY <1>5, <3>1
    <3>2. CASE s # Builtin
      BY <1>5, <3>2
    <3> QED
      BY <3>1, <3>2
  <2> QED
    BY <1>4, <2>1, <2>2 DEF Answers, FileOf
<1>10. Answers(m0)'
  <2>1. CASE s = Builtin
    BY <1>3, <1>c, <2>1 DEF Answers
  <2>2. CASE s # Builtin /\ result # Failure
    <3>1. /\ FileOf(result, path) /\ result.foundAt = path
          /\ path \in DOMAIN cache' /\ cache'[path] = result
      BY <1>3, <1>5, <2>2 DEF FileOf
    <3>2. Shared(from) => Len(path) # 2
      BY <1>1, <1>a, SharedImportsShared DEF Shared
    <3> QED
      BY <1>4, <1>c, <3>1, <3>2 DEF Answers, FileOf
  <2>3. CASE s # Builtin /\ result = Failure
    BY <1>c, <2>3 DEF Answers
  <2> QED
    BY <2>1, <2>2, <2>3
<1> QED
  BY <1>4, <1>7, <1>8, <1>9, <1>10 DEF Inv

LEMMA InvHolds == Spec => []Inv
<1>1. Init => Inv
  BY DEF Init, Inv, TypeOK, CacheHolds, Library
<1>2. Inv /\ [Next]_vars => Inv'
  <2> SUFFICES ASSUME Inv, [Next]_vars PROVE Inv'
    OBVIOUS
  <2>1. ASSUME NEW l \in Namespaces \X Names, Change(l) PROVE Inv'
    <3>1. libraries' \in [Namespaces \X Names -> Library] /\ changes' \in Nat
      BY <2>1 DEF Change, Inv, TypeOK, Library
    <3> QED
      BY <2>1, <3>1 DEF Change, Inv, TypeOK, CacheHolds, Answers, FileOf
  <2>2. CASE Render
    BY <2>2 DEF Render, Inv, TypeOK, CacheHolds
  <2>3. ASSUME NEW from \in Files, NEW s \in Statements, Import(from, s)
        PROVE  Inv'
    BY <2>3, ImportKeepsInv
  <2>4. CASE Rendered
    BY <2>4 DEF Rendered, Inv, TypeOK, CacheHolds, Answers, FileOf
  <2>5. CASE UNCHANGED vars
    BY <2>5 DEF vars, Inv, TypeOK, CacheHolds, Answers, FileOf
  <2> QED
    BY <2>1, <2>2, <2>3, <2>4, <2>5 DEF Next
<1> QED
  BY <1>1, <1>2, PTL DEF Spec

------------------------------------------------------------------------------
(* What follows from it *)

\* The cache maps paths to what was found at them.
THEOREM TypeCorrect == Spec => []TypeOK
<1>1. Inv => TypeOK
  BY DEF Inv
<1> QED
  BY <1>1, InvHolds, PTL

\* Shared libraries import only shared ones, and without a namespace nothing
\* local is loaded.
THEOREM SharedImports == Spec => []SharedStaysShared
<1>1. Inv => SharedStaysShared
  <2> SUFFICES ASSUME Inv, NEW m \in made, m.result.ok,
                      Shared(m.from) \/ namespace = NoNamespace
               PROVE  Shared(m.result.foundAt)
    BY DEF SharedStaysShared
  <2>1. m.result # Failure
    BY DEF Failure
  <2>2. CASE m.result = FoundBuiltin
    BY <2>2 DEF FoundBuiltin, Found, Shared
  <2>3. CASE m.result # FoundBuiltin
    BY <2>1, <2>3 DEF Inv, Answers, FileOf, Shared
  <2> QED
    BY <2>2, <2>3
<1> QED
  BY <1>1, InvHolds, PTL

LEMMA TriplesEqual ==
  ASSUME NEW a, NEW b, NEW c, NEW d, NEW e, NEW f, <<a, b, c>> = <<d, e, f>>
  PROVE  a = d /\ b = e /\ c = f
  OBVIOUS

\* Two paths of one file differ only in the namespace of the shared libraries.
LEMMA OnePath ==
  ASSUME NEW p \in Seq(Segments), NEW o \in Seq(Segments), NEW q, NEW r,
         FileOf(q, p), FileOf(r, o), q.file = r.file,
         namespace # LibraryNamespace
  PROVE  p = o
<1>1. CASE Len(p) = 2 /\ Len(o) = 2
  <2>1. <<namespace, p[1], p[2]>> = <<namespace, o[1], o[2]>>
    BY <1>1 DEF FileOf
  <2>2. p[1] = o[1] /\ p[2] = o[2]
    BY ONLY <2>1, TriplesEqual
  <2>3. \A i \in 1..2 : p[i] = o[i]
    BY <2>2
  <2> QED
    BY <1>1, <2>3, SeqEqual
<1>2. CASE Len(p) = 3 /\ Len(o) = 3
  <2>1. /\ <<LibraryNamespace, p[2], p[3]>> = <<LibraryNamespace, o[2], o[3]>>
        /\ p[1] = "lib" /\ o[1] = "lib"
    BY <1>2 DEF FileOf
  <2>2. p[2] = o[2] /\ p[3] = o[3]
    BY ONLY <2>1, TriplesEqual
  <2>3. \A i \in 1..3 : p[i] = o[i]
    BY <2>1, <2>2
  <2> QED
    BY <1>2, <2>3, SeqEqual
<1>3. CASE Len(p) = 2 /\ Len(o) = 3
  <2>1. <<namespace, p[1], p[2]>> = <<LibraryNamespace, o[2], o[3]>>
    BY <1>3 DEF FileOf
  <2>2. namespace = LibraryNamespace
    BY ONLY <2>1, TriplesEqual
  <2> QED
    BY <2>2
<1>4. CASE Len(p) = 3 /\ Len(o) = 2
  <2>1. <<LibraryNamespace, p[2], p[3]>> = <<namespace, o[1], o[2]>>
    BY <1>4 DEF FileOf
  <2>2. LibraryNamespace = namespace
    BY ONLY <2>1, TriplesEqual
  <2> QED
    BY <2>2
<1> QED
  BY <1>1, <1>2, <1>3, <1>4 DEF FileOf

InCache(r) ==
  /\ r.foundAt \in DOMAIN cache /\ cache[r.foundAt] = r
  /\ r.foundAt \in Seq(Segments) /\ FileOf(r, r.foundAt)

\* Failures, the library that is built in and files are told apart.
LEMMA KindsDiffer ==
  /\ Failure.foundAt # FoundBuiltin.foundAt /\ Failure.file # FoundBuiltin.file
  /\ \A r : InCache(r) =>
       /\ r.foundAt # Failure.foundAt /\ r.foundAt # FoundBuiltin.foundAt
       /\ r.file # Failure.file /\ r.file # FoundBuiltin.file
<1>1. Len(Failure.foundAt) = 0 /\ Len(Failure.file) = 0
  BY DEF Failure
<1>2. FoundBuiltin.foundAt = Builtin /\ FoundBuiltin.file = Builtin
  BY DEF FoundBuiltin, Found
<1>3. \A r : InCache(r) => Len(r.foundAt) \in {2, 3} /\ Len(r.file) = 3
  BY DEF InCache, FileOf
<1>4. Len(Builtin) = 1
  BY SequenceTypes
<1> QED
  BY <1>1, <1>2, <1>3, <1>4

\* A path stands for the same contents throughout a render, and a file is seen
\* in one version; only in the namespace of the shared libraries, where a file
\* has two paths, it may be seen in two.
THEOREM OneVersion == Spec => []OneVersionPerFile
<1>1. Inv => OneVersionPerFile
  <2> SUFFICES ASSUME Inv, NEW m \in made, NEW n \in made
               PROVE  /\ m.result.foundAt = n.result.foundAt
                           => m.result = n.result
                      /\ (/\ namespace # LibraryNamespace
                          /\ m.result.file = n.result.file)
                           => m.result.version = n.result.version
    BY DEF OneVersionPerFile
  <2>1. PICK q : q = m.result
    OBVIOUS
  <2>2. PICK r : r = n.result
    OBVIOUS
  <2>3. /\ q = Failure \/ q = FoundBuiltin \/ InCache(q)
        /\ r = Failure \/ r = FoundBuiltin \/ InCache(r)
    BY <2>1, <2>2 DEF Inv, TypeOK, Answers, InCache
  <2>4. InCache(q) /\ InCache(r) /\ q.foundAt = r.foundAt => q = r
    BY DEF InCache
  <2>5. ASSUME InCache(q), InCache(r), q.file = r.file,
               namespace # LibraryNamespace
        PROVE  q = r
    BY <2>4, <2>5, OnePath DEF InCache
  <2>6. ASSUME q.foundAt = r.foundAt \/ q.file = r.file,
               ~(InCache(q) /\ InCache(r))
        PROVE  q = r
    <3>1. CASE q = Failure
      BY <2>3, <2>6, <3>1, KindsDiffer
    <3>2. CASE q = FoundBuiltin
      BY <2>3, <2>6, <3>2, KindsDiffer
    <3>3. CASE InCache(q)
      BY <2>3, <2>6, <3>3, KindsDiffer
    <3> QED
      BY <2>3, <3>1, <3>2, <3>3
  <2>7. m.result.foundAt = n.result.foundAt => m.result = n.result
    BY <2>1, <2>2, <2>4, <2>6
  <2>8. ASSUME namespace # LibraryNamespace, m.result.file = n.result.file
        PROVE  m.result.version = n.result.version
    <3>1. q = r
      BY <2>1, <2>2, <2>5, <2>6, <2>8
    <3> QED
      BY <2>1, <2>2, <3>1
  <2> QED
    BY <2>7, <2>8
<1> QED
  BY <1>1, InvHolds, PTL

------------------------------------------------------------------------------
(* Answered once, and for good *)

\* What an import was answered is what the cache has under the path it became;
\* an error ends the render.
FromCache(m) ==
  IF m.statement = Builtin THEN m.result = FoundBuiltin
  ELSE /\ MakeAbsoluteImportPath(m.from, m.statement) \in DOMAIN cache
       /\ cache[MakeAbsoluteImportPath(m.from, m.statement)] = m.result

NoErrors ==
  pc # "failed" =>
    (\A m \in made : m.result.ok) /\ (\A path \in DOMAIN cache : cache[path].ok)

Remembers ==
  /\ Inv
  /\ \A m \in made : FromCache(m)
  /\ NoErrors

LEMMA ImportRemembers ==
  ASSUME Remembers, NEW from, NEW s \in Statements, from \in Files,
         Import(from, s)
  PROVE  Remembers'
<1>a. PICK path : path = MakeAbsoluteImportPath(from, s)
  OBVIOUS
<1>b. PICK result :
        result = IF s = Builtin THEN FoundBuiltin
                 ELSE IF path \in DOMAIN cache THEN cache[path]
                 ELSE LoadFromCluster(path)
  OBVIOUS
<1>c. PICK m0 : m0 = [from |-> from, statement |-> s, result |-> result]
  OBVIOUS
<1>1. Inv'
  BY ImportKeepsInv DEF Remembers
<1>2. /\ made' = made \cup {m0} /\ pc = "rendering"
      /\ pc' = IF result.ok THEN pc ELSE "failed"
      /\ s = Builtin => cache' = cache
      /\ s # Builtin =>
           cache' = [p \in DOMAIN cache \cup {path} |->
                       IF p = path THEN result ELSE cache[p]]
  BY <1>a, <1>b, <1>c DEF Import, Importing, Answered
<1>3. \A p \in DOMAIN cache : p \in DOMAIN cache' /\ cache'[p] = cache[p]
  <2>1. CASE s = Builtin
    BY <1>2, <2>1
  <2>2. CASE s # Builtin
    BY <1>2, <1>b, <2>2
  <2> QED
    BY <2>1, <2>2
<1>4. \A p \in DOMAIN cache' :
        (p \in DOMAIN cache /\ cache'[p] = cache[p]) \/ cache'[p] = result
  BY <1>2
<1>5. ASSUME NEW m \in made PROVE FromCache(m)'
  BY <1>3 DEF Remembers, FromCache
<1>6. FromCache(m0)'
  <2>1. CASE s = Builtin
    BY <1>b, <1>c, <2>1 DEF FromCache
  <2>2. CASE s # Builtin
    <3>1. path \in DOMAIN cache' /\ cache'[path] = result
      BY <1>2, <2>2
    <3> QED
      BY <1>a, <1>c, <2>2, <3>1 DEF FromCache
  <2> QED
    BY <2>1, <2>2
<1>7. NoErrors'
  BY <1>2, <1>4, <1>c DEF Remembers, NoErrors
<1> QED
  BY <1>1, <1>2, <1>5, <1>6, <1>7 DEF Remembers

LEMMA RemembersHolds == Spec => []Remembers
<1>1. Init /\ Inv => Remembers
  BY DEF Init, Remembers, NoErrors
<1>2. Remembers /\ Inv' /\ [Next]_vars => Remembers'
  <2> SUFFICES ASSUME Remembers, Inv', [Next]_vars PROVE Remembers'
    OBVIOUS
  <2>1. ASSUME NEW l \in Namespaces \X Names, Change(l) PROVE Remembers'
    BY <2>1 DEF Change, Remembers, FromCache, NoErrors
  <2>2. CASE Render
    BY <2>2 DEF Render, Remembers, NoErrors
  <2>3. ASSUME NEW from \in Files, NEW s \in Statements, Import(from, s)
        PROVE  Remembers'
    BY <2>3, ImportRemembers
  <2>4. CASE Rendered
    BY <2>4 DEF Rendered, Remembers, FromCache, NoErrors
  <2>5. CASE UNCHANGED vars
    BY <2>5 DEF vars, Remembers, FromCache, NoErrors
  <2> QED
    BY <2>1, <2>2, <2>3, <2>4, <2>5 DEF Next
<1> QED
  BY <1>1, <1>2, InvHolds, PTL DEF Spec

\* The files that collect-input keeps give every import of the render what it
\* had on the cluster, whatever the files import.
THEOREM OfflineImports == Spec => []OfflineImportsAgree
<1>1. Remembers => OfflineImportsAgree
  <2> SUFFICES ASSUME Remembers, pc = "rendered", NEW m \in made
               PROVE  MemoryImport(m.from, m.statement) = m.result
    BY DEF OfflineImportsAgree
  <2>1. CASE m.statement = Builtin
    BY <2>1 DEF Remembers, FromCache, MemoryImport
  <2>2. CASE m.statement # Builtin
    <3> DEFINE path == MakeAbsoluteImportPath(m.from, m.statement)
               hits == {r \in Collected : r.foundAt = path}
    <3>1. path \in DOMAIN cache /\ cache[path] = m.result /\ m.result.ok
      BY <2>2 DEF Remembers, FromCache, NoErrors
    <3>2. \A p \in DOMAIN cache : cache[p].ok /\ cache[p].foundAt = p
      <4>1. \A p \in DOMAIN cache : cache[p].ok
        BY DEF Remembers, NoErrors
      <4> QED
        BY <4>1 DEF Remembers, Inv, TypeOK
    <3> HIDE DEF path
    <3>3. hits = {m.result}
      BY <3>1, <3>2 DEF Collected
    <3>4. MemoryImport(m.from, m.statement) =
            IF hits = {} THEN Failure ELSE CHOOSE r \in hits : TRUE
      BY <2>2 DEF MemoryImport, path
    <3> HIDE DEF hits
    <3> QED
      BY <3>3, <3>4
  <2> QED
    BY <2>1, <2>2
<1> QED
  BY <1>1, RemembersHolds, PTL

------------------------------------------------------------------------------
(* The documentation *)

\* A file that can import: the template, or one of a library.
Importer(from) ==
  \/ from = Template
  \/ Len(from) = 2
  \/ Len(from) = 3 /\ from[1] = "lib"

\* A path under which files are, and one under which there is none.
FilePath(path) == Len(path) = 2 \/ (Len(path) = 3 /\ path[1] = "lib")
NoFilePath(path) ==
  \/ Len(path) # 2 /\ Len(path) # 3
  \/ Len(path) = 2 /\ path[1] \notin Names
  \/ Len(path) = 3 /\ path[1] # "lib"

\* A file imports one next to it.
LEMMA Sibling ==
  ASSUME NEW from \in Seq(Segments), NEW path \in Seq(Segments),
         Len(from) = 2 \/ Len(from) = 3, Len(path) = 1
  PROVE  /\ Directory(from) \o path = [from EXCEPT ![Len(from)] = path[1]]
         /\ Len(Directory(from) \o path) = Len(from)
         /\ (Directory(from) \o path)[1] = from[1]
<1> DEFINE n == Len(from) - 1
           all == Directory(from) \o path
           sibling == [from EXCEPT ![Len(from)] = path[1]]
<1>1. /\ n \in {1, 2} /\ Len(from) = n + 1 /\ Len(from) \in 1..Len(from)
      /\ Len(from) # 1
  <2>1. CASE Len(from) = 2
    BY <2>1
  <2>2. CASE Len(from) = 3
    BY <2>2
  <2> QED
    BY <2>1, <2>2
<1>2. Directory(from) = SubSeq(from, 1, n)
  BY <1>1 DEF Directory
<1>3. path[1] \in Segments
  BY ElementOfSeq
<1> HIDE DEF n
<1>4. \A i \in 1..n : from[i] \in Segments
  BY <1>1, ElementOfSeq
<1>5. /\ SubSeq(from, 1, n) \in Seq(Segments)
      /\ Len(SubSeq(from, 1, n)) = n
      /\ \A i \in 1..n : SubSeq(from, 1, n)[i] = from[i]
  <2>1. CASE n = 1
    BY <1>4, <2>1, SubSeqProperties
  <2>2. CASE n = 2
    BY <1>4, <2>2, SubSeqProperties
  <2> QED
    BY <1>1, <2>1, <2>2
<1>6. /\ all \in Seq(Segments) /\ Len(all) = n + 1
      /\ \A i \in 1..n : all[i] = from[i]
      /\ all[n + 1] = path[1]
  <2>1. PICK dir : dir = SubSeq(from, 1, n)
    OBVIOUS
  <2>2. /\ dir \in Seq(Segments) /\ Len(dir) = n
        /\ \A i \in 1..n : dir[i] = from[i]
    BY <1>5, <2>1
  <2>3. /\ dir \o path \in Seq(Segments)
        /\ Len(dir \o path) = Len(dir) + Len(path)
        /\ \A i \in 1..Len(dir) + Len(path) :
             (dir \o path)[i] = IF i <= Len(dir) THEN dir[i]
                                ELSE path[i - Len(dir)]
    BY <2>2, ConcatProperties
  <2>4. all = dir \o path
    BY <1>2, <2>1
  <2> HIDE DEF all
  <2>5. /\ all \in Seq(Segments) /\ Len(all) = n + 1
        /\ \A i \in 1..n + 1 : all[i] = IF i <= n THEN dir[i] ELSE path[i - n]
    BY <2>2, <2>3, <2>4
  <2>6. \A i \in 1..n : i \in 1..n + 1 /\ i <= n
    BY <1>1
  <2>7. n + 1 \in 1..n + 1 /\ ~(n + 1 <= n) /\ n + 1 - n = 1
    BY <1>1
  <2> QED
    BY <2>2, <2>5, <2>6, <2>7
<1>7. /\ sibling \in Seq(Segments) /\ Len(sibling) = n + 1
      /\ \A i \in 1..n + 1 :
           sibling[i] = IF i = n + 1 THEN path[1] ELSE from[i]
  BY <1>1, <1>3, ExceptSeq
<1> HIDE DEF all, sibling
<1>8. \A i \in 1..n + 1 : i = n + 1 \/ i \in 1..n
  BY <1>1
<1>9. all = sibling
  BY <1>6, <1>7, <1>8, SeqEqual
<1>10. all[1] = from[1]
  BY <1>1, <1>6
<1> QED
  BY <1>1, <1>6, <1>9, <1>10 DEF all, sibling

\* A directory is put before a path.
LEMMA Prepended ==
  ASSUME NEW x \in Segments, NEW path \in Seq(Segments)
  PROVE  Len(<<x>> \o path) = 1 + Len(path) /\ (<<x>> \o path)[1] = x
<1>1. <<x>> \in Seq(Segments) /\ Len(<<x>>) = 1 /\ <<x>>[1] = x
  BY SingleType
<1>2. PICK one : one = <<x>>
  OBVIOUS
<1>3. /\ Len(one \o path) = Len(one) + Len(path)
      /\ \A i \in 1..Len(one) + Len(path) :
           (one \o path)[i] = IF i <= Len(one) THEN one[i]
                              ELSE path[i - Len(one)]
  BY <1>1, <1>2, ConcatProperties
<1>4. Len(path) \in Nat
  OBVIOUS
<1> QED
  BY <1>1, <1>2, <1>3, <1>4

LEMMA Resolved ==
  ASSUME NEW from \in Seq(Segments), Importer(from), NEW s \in Statements,
         s # Builtin,
         ~(Len(from) = 2 /\ from[1] = "lib" /\ Len(WithoutDot(s)) = 2)
  PROVE  LET abs == MakeAbsoluteImportPath(from, s) IN
         \/ Documented(from, s) = abs /\ FilePath(abs)
         \/ Documented(from, s) = <<>> /\ NoFilePath(abs)
<1> DEFINE abs == MakeAbsoluteImportPath(from, s)
           path == WithoutDot(s)
<1>1. path \in Seq(Segments) /\ Len(path) \in Nat /\ Len(path) > 0
  BY WithoutDotType
<1>2. Len(Template) = 1 /\ Template[1] = ""
  BY DEF Template
<1>3. CASE Len(path) = 1
  <2>1. abs = Directory(from) \o path
    BY <1>3 DEF MakeAbsoluteImportPath
  <2> HIDE DEF abs, path
  <2>2. CASE from = Template
    <3>1. PICK nothing \in Segments : nothing = "" /\ nothing \notin Names
      BY SegmentAssumption, NameAssumption
    <3>2. Len(abs) = 2 /\ abs[1] \notin Names
      <4>1. Directory(from) = <<nothing>>
        BY <1>2, <2>2, <3>1 DEF Directory
      <4>2. PICK joined : joined = <<nothing>> \o path
        OBVIOUS
      <4>3. abs = joined
        BY <2>1, <4>1, <4>2
      <4>4. Len(joined) = 1 + Len(path) /\ joined[1] = nothing
        BY <1>1, <4>2, Prepended
      <4>5. 1 + Len(path) = 2
        BY <1>3
      <4>6. Len(abs) = 2
        BY <4>3, <4>4, <4>5
      <4>7. abs[1] = nothing
        BY <4>3, <4>4
      <4> QED
        BY <3>1, <4>6, <4>7
    <3>3. Documented(from, s) = <<>>
      BY <1>3, <2>2 DEF Documented, path
    <3> QED
      BY <3>2, <3>3 DEF NoFilePath, abs
  <2>3. CASE from # Template
    <3>1. Len(from) = 2 \/ Len(from) = 3
      BY <2>3 DEF Importer
    <3>2. /\ abs = [from EXCEPT ![Len(from)] = path[1]]
          /\ Len(abs) = Len(from) /\ abs[1] = from[1]
      BY <1>1, <1>3, <2>1, <3>1, Sibling
    <3>3. Documented(from, s) = abs
      BY <1>3, <2>3, <3>2 DEF Documented, path
    <3>4. FilePath(abs)
      BY <2>3, <3>2 DEF Importer, FilePath
    <3> QED
      BY <3>3, <3>4 DEF abs
  <2> QED
    BY <2>2, <2>3
<1>4. CASE Len(path) = 2
  <2>1. InLib(from) <=> Shared(from)
    <3>1. CASE from = Template
      BY <1>2, <3>1 DEF InLib, Shared, Template, Builtin
    <3>2. CASE Len(from) = 2
      <4>1. from # Builtin
        BY <3>2 DEF Builtin
      <4> QED
        BY <1>4, <3>2, <4>1 DEF InLib, Shared
    <3>3. CASE Len(from) = 3 /\ from[1] = "lib"
      BY <3>3 DEF InLib, Shared
    <3> QED
      BY <3>1, <3>2, <3>3 DEF Importer
  <2>2. Documented(from, s) = IF Shared(from) THEN <<"lib">> \o path ELSE path
    BY <1>4 DEF Documented
  <2>3. abs = IF InLib(from) THEN <<"lib">> \o path ELSE path
    BY <1>4 DEF MakeAbsoluteImportPath
  <2>4. Len(<<"lib">> \o path) = 3 /\ (<<"lib">> \o path)[1] = "lib"
    <3> HIDE DEF path
    <3>1. "lib" \in Segments
      BY SegmentAssumption
    <3>2. /\ Len(<<"lib">> \o path) = 1 + Len(path)
          /\ (<<"lib">> \o path)[1] = "lib"
      BY <1>1, <3>1, Prepended
    <3> QED
      BY <1>4, <3>2
  <2> HIDE DEF abs, path
  <2>5. FilePath(abs)
    BY <1>4, <2>3, <2>4 DEF FilePath
  <2> QED
    BY <2>1, <2>2, <2>3, <2>5 DEF abs
<1>5. CASE Len(path) \notin {1, 2}
  <2>1. abs = path
    BY <1>5 DEF MakeAbsoluteImportPath
  <2>2. Documented(from, s) =
          IF Len(path) = 3 /\ path[1] = "lib" THEN path ELSE <<>>
    BY <1>5 DEF Documented
  <2> HIDE DEF abs, path
  <2> QED
    BY <1>5, <2>1, <2>2 DEF FilePath, NoFilePath, abs
<1> QED
  BY <1>1, <1>3, <1>4, <1>5

\* What cannot be loaded is not there.
LEMMA NotThere ==
  ASSUME TypeOK, NEW path, FilePath(path), LoadFromCluster(path) = Failure
  PROVE  ~Exists(path)
<1>1. \A p, f, v : Found(p, f, v) # Failure
  BY DEF Found, Failure
<1>2. path # Builtin
  BY DEF FilePath, Builtin
<1>3. CASE Len(path) = 2
  <2>1. CASE namespace # NoNamespace
    <3>1. LoadFromCluster(path) = LoadKey(namespace, path[1], path[2], path)
      BY <1>3, <2>1 DEF LoadFromCluster
    <3>2. ~(/\ <<namespace, path[1]>> \in Namespaces \X Names
            /\ path[2] \in libraries[<<namespace, path[1]>>].keys)
      BY <1>1, <3>1 DEF LoadKey, TypeOK
    <3>3. namespace \in Namespaces
      BY <2>1 DEF TypeOK
    <3> QED
      BY <1>2, <1>3, <3>2, <3>3 DEF Exists
  <2>2. CASE namespace = NoNamespace
    BY <1>2, <1>3, <2>2 DEF Exists
  <2> QED
    BY <2>1, <2>2
<1>4. CASE Len(path) = 3 /\ path[1] = "lib"
  <2>1. LoadFromCluster(path) =
          LoadKey(LibraryNamespace, path[2], path[3], path)
    BY <1>4 DEF LoadFromCluster
  <2>2. ~(/\ <<LibraryNamespace, path[2]>> \in Namespaces \X Names
          /\ path[3] \in libraries[<<LibraryNamespace, path[2]>>].keys)
    BY <1>1, <2>1 DEF LoadKey, TypeOK
  <2> QED
    BY <1>2, <1>4, <2>2, NamespaceAssumption DEF Exists
<1> QED
  BY <1>3, <1>4 DEF FilePath

LEMMA FilesImport ==
  ASSUME Remembers, pc = "rendering", NEW from \in Files \ {Builtin}
  PROVE  from \in Seq(Segments) /\ Importer(from)
<1>1. CASE from = Template
  BY <1>1, SequenceTypes DEF Importer
<1>2. CASE from # Template
  <2>1. PICK m \in made : from = m.result.foundAt
    BY <1>2 DEF Files
  <2>2. m.result # Failure
    BY DEF Remembers, NoErrors, Failure
  <2>3. m.result # FoundBuiltin
    BY <2>1 DEF FoundBuiltin, Found
  <2>4. from \in DOMAIN cache /\ FileOf(m.result, from)
    BY <2>1, <2>2, <2>3 DEF Remembers, Inv, Answers
  <2> QED
    BY <2>4 DEF Remembers, Inv, TypeOK, FileOf, Importer
<1> QED
  BY <1>1, <1>2

LEMMA ImportDocumented ==
  ASSUME Remembers, NEW from, NEW s \in Statements, from \in Files,
         Import(from, s)
  PROVE  AnswersAsDocumented
<1>a. PICK abs : abs = MakeAbsoluteImportPath(from, s)
  OBVIOUS
<1>b. PICK result :
        result = IF s = Builtin THEN FoundBuiltin
                 ELSE IF abs \in DOMAIN cache THEN cache[abs]
                 ELSE LoadFromCluster(abs)
  OBVIOUS
<1>c. PICK m0 : m0 = [from |-> from, statement |-> s, result |-> result]
  OBVIOUS
<1>d. PICK path : path = Documented(from, s)
  OBVIOUS
<1>1. /\ pc = "rendering" /\ from # Builtin /\ made' \ made \subseteq {m0}
      /\ UNCHANGED <<namespace, libraries>>
  BY <1>a, <1>b, <1>c DEF Import, Importing, Answered
<1>2. from \in Seq(Segments) /\ Importer(from)
  BY <1>1, FilesImport
<1>3. abs \in Seq(Segments)
  BY <1>2, <1>a, AbsoluteType
<1>4. \/ IF result.ok
         THEN result.foundAt = path /\ result.file = DocumentedFile(path)
         ELSE ~Exists(path)
      \/ /\ Len(from) = 2 /\ from[1] = "lib" /\ Len(WithoutDot(s)) = 2
  <2>1. CASE s = Builtin
    <3>1. WithoutDot(Builtin) = Builtin /\ Len(Builtin) = 1
      BY DEF WithoutDot, Builtin
    <3>2. path = Builtin
      BY <1>d, <2>1, <3>1 DEF Documented
    <3>3. DocumentedFile(path) = Builtin
      BY <3>2, SequenceTypes DEF DocumentedFile
    <3>4. result = FoundBuiltin
      BY <1>b, <2>1
    <3>5. result.ok /\ result.foundAt = Builtin /\ result.file = Builtin
      BY <3>4 DEF FoundBuiltin, Found
    <3> QED
      BY <3>2, <3>3, <3>5
  <2>2. CASE s # Builtin /\ ~(Len(from) = 2 /\ from[1] = "lib"
                              /\ Len(WithoutDot(s)) = 2)
    <3>1. \/ path = abs /\ FilePath(abs)
          \/ path = <<>> /\ NoFilePath(abs)
      BY <1>2, <1>a, <1>d, <2>2, Resolved
    <3>2. /\ result = Failure \/ FileOf(result, abs)
          /\ result = Failure => LoadFromCluster(abs) = Failure
      <4>1. CASE abs \in DOMAIN cache
        <5>1. result = cache[abs] /\ cache[abs].ok
          BY <1>1, <1>b, <2>2, <4>1 DEF Remembers, NoErrors
        <5>2. result # Failure
          BY <5>1 DEF Failure
        <5> QED
          BY <4>1, <5>1, <5>2 DEF Remembers, Inv, CacheHolds
      <4>2. CASE abs \notin DOMAIN cache
        BY <1>3, <1>b, <2>2, <4>2, Loaded DEF Remembers, Inv
      <4> QED
        BY <4>1, <4>2
    <3>3. CASE path = abs /\ FilePath(abs)
      <4>1. result = Failure => ~Exists(path)
        BY <3>2, <3>3, NotThere DEF Remembers, Inv
      <4>2. FileOf(result, abs) => result.file = DocumentedFile(path)
        BY <3>3, SequenceTypes DEF FileOf, DocumentedFile
      <4> QED
        BY <3>2, <3>3, <4>1, <4>2 DEF FileOf, Failure
    <3>4. CASE path = <<>> /\ NoFilePath(abs)
      <4>1. ~FileOf(result, abs)
        <5>1. FileOf(result, abs) =>
                \/ Len(abs) = 2 /\ abs[1] \in Names
                \/ Len(abs) = 3 /\ abs[1] = "lib"
          BY DEF FileOf
        <5>2. ~(Len(abs) = 2 /\ Len(abs) = 3)
          OBVIOUS
        <5> QED
          BY <3>4, <5>1, <5>2 DEF NoFilePath
      <4>2. ~Exists(path)
        BY <3>4 DEF Exists, Builtin
      <4> QED
        BY <3>2, <4>1, <4>2 DEF Failure
    <3> QED
      BY <3>1, <3>3, <3>4
  <2> QED
    BY <2>1, <2>2
<1> QED
  <2> SUFFICES ASSUME NEW m \in made' \ made
               PROVE \/ IF m.result.ok
                        THEN /\ m.result.foundAt
                                  = Documented(m.from, m.statement)
                             /\ m.result.file
                                  = DocumentedFile(Documented(m.from, m.statement))
                        ELSE ~Exists(Documented(m.from, m.statement))
                     \/ /\ Len(m.from) = 2 /\ m.from[1] = "lib"
                        /\ Len(WithoutDot(m.statement)) = 2
    BY DEF AnswersAsDocumented
  <2>1. m.from = from /\ m.statement = s /\ m.result = result
    BY <1>1, <1>c
  <2> QED
    BY <1>4, <1>d, <2>1

\* An import gives the file that the documentation names, or there is no such
\* file, for any libraries and statements.
THEOREM Documentation == Spec => ResolvesAsDocumented
<1>1. Remembers /\ [Next]_vars => [AnswersAsDocumented]_vars
  <2> SUFFICES ASSUME Remembers, Next PROVE AnswersAsDocumented \/ UNCHANGED vars
    OBVIOUS
  <2>1. ASSUME made' \ made = {} PROVE AnswersAsDocumented
    BY <2>1 DEF AnswersAsDocumented
  <2>2. ASSUME NEW from \in Files, NEW s \in Statements, Import(from, s)
        PROVE  AnswersAsDocumented
    BY <2>2, ImportDocumented
  <2> QED
    BY <2>1, <2>2 DEF Next, Change, Render, Rendered
<1> QED
  BY <1>1, RemembersHolds, PTL DEF Spec, ResolvesAsDocumented

=============================================================================
