------------------------------ MODULE ImportPaths ------------------------------
(***************************************************************************)
(* The imports of a template: how an import statement in a file becomes a  *)
(* path, what is loaded for it, and what one render sees of libraries that *)
(* change under it.  Afterwards the command line renders the template      *)
(* again, without a cluster, from the files the render has loaded.         *)
(*                                                                         *)
(* A path is the sequence of its segments.  What a file imports is its     *)
(* own affair: any statement may be met in it.                             *)
(***************************************************************************)
EXTENDS Integers, Sequences, FiniteSets

CONSTANTS
  Segments,   \* what stands between the slashes of paths
  Namespaces, \* of the cluster
  LibraryNamespace, \* the one for shared libraries
  NoNamespace, \* none
  Names,      \* of libraries
  Keys,       \* of the files in them
  Statements, \* the import statements files may contain
  MaxChanges, \* bound on changes of libraries
  MaxImports  \* bound on the imports of one render

ASSUME SegmentAssumption ==
  Names \cup Keys \cup {"", ".", "lib", "espejote.libsonnet"} \subseteq Segments
ASSUME NameAssumption == "" \notin Names
ASSUME NamespaceAssumption ==
  LibraryNamespace \in Namespaces /\ NoNamespace \notin Namespaces
ASSUME StatementAssumption == Statements \subseteq Seq(Segments) \ {<<>>}
ASSUME BoundAssumption == MaxChanges \in Nat /\ MaxImports \in Nat

VARIABLES
  namespace, \* the namespace for local imports, if there is one; it may be
             \* the LibraryNamespace
  libraries, \* [Namespaces \X Names -> Library], what the client reads
  changes,   \* how often libraries were changed
  pc,        \* "idle", or "rendering" until it "rendered" or "failed"
  cache,     \* the importer's Cache
  made       \* the imports of the render, and what the importer answered

vars == <<namespace, libraries, changes, pc, cache, made>>

\* All the files of a library are written at once; one without files stands
\* for one that is not there.
Library == [version : Nat, keys : SUBSET Keys]

\* A key of a library.
File == Namespaces \X Names \X Keys

\* What files are called in imports; the template has no directory.
Template == <<"">>
Builtin == <<"espejote.libsonnet">>

\* What an import gives: an error, or the path something was found at and its
\* contents, which are those of a file in some version.
Result == [ok : BOOLEAN, foundAt : Seq(Segments),
           file : File \cup {<<>>, Builtin}, version : Nat]
Failure == [ok |-> FALSE, foundAt |-> <<>>, file |-> <<>>, version |-> 0]
Found(path, file, version) ==
  [ok |-> TRUE, foundAt |-> path, file |-> file, version |-> version]
FoundBuiltin == Found(Builtin, Builtin, 0)

TypeOK ==
  /\ namespace \in Namespaces \cup {NoNamespace}
  /\ libraries \in [Namespaces \X Names -> Library]
  /\ changes \in Nat
  /\ pc \in {"idle", "rendering", "rendered", "failed"}
  /\ \A path \in DOMAIN cache :
       /\ path \in Seq(Segments)
       /\ cache[path] \in Result
       /\ cache[path].ok => cache[path].foundAt = path
  /\ made \subseteq [from : Seq(Segments), statement : Statements,
                     result : Result]

Init ==
  /\ namespace \in Namespaces \cup {NoNamespace}
  /\ libraries = [l \in Namespaces \X Names |-> [version |-> 1, keys |-> Keys]]
  /\ changes = 0
  /\ pc = "idle"
  /\ cache = <<>>
  /\ made = {}

------------------------------------------------------------------------------
(* Paths *)

\* Everything up to the last slash; nothing if there is none.
Directory(path) ==
  IF Len(path) = 1 THEN <<"">> ELSE SubSeq(path, 1, Len(path) - 1)

WithoutDot(statement) ==
  IF Len(statement) > 1 /\ statement[1] = "." THEN Tail(statement) ELSE statement

InLib(path) == Len(path) > 1 /\ path[1] = "lib"

\* Faulty: "./" is looked at as a directory.
AbsoluteWithDot(from, statement) ==
  CASE Len(statement) = 1 -> Directory(from) \o statement
    [] Len(statement) = 2 /\ InLib(from) -> <<"lib">> \o statement
    [] OTHER -> statement

\* Faulty: a shared library imports by name like the template does.
AbsoluteLeavingLib(from, statement) ==
  LET path == WithoutDot(statement) IN
  IF Len(path) = 1 THEN Directory(from) \o path ELSE path

MakeAbsoluteImportPath(from, statement) ==
  LET path == WithoutDot(statement) IN
  CASE Len(path) = 1 -> Directory(from) \o path
    [] Len(path) = 2 /\ InLib(from) -> <<"lib">> \o path
    [] OTHER -> path

\* A file of a library that the client reads.
LoadKey(ns, name, key, path) ==
  IF /\ <<ns, name>> \in DOMAIN libraries
     /\ key \in libraries[<<ns, name>>].keys
  THEN Found(path, <<ns, name, key>>, libraries[<<ns, name>>].version)
  ELSE Failure

LoadFromCluster(path) ==
  CASE Len(path) = 2 /\ namespace # NoNamespace ->
         LoadKey(namespace, path[1], path[2], path)
    [] Len(path) = 3 /\ path[1] = "lib" ->
         LoadKey(LibraryNamespace, path[2], path[3], path)
    [] OTHER -> Failure

------------------------------------------------------------------------------
(* The render *)

\* A library is written, or deleted.
Change(l) ==
  /\ changes < MaxChanges
  /\ changes' = changes + 1
  /\ \E keys \in SUBSET Keys :
       libraries' = [libraries EXCEPT ![l] =
                       [version |-> @.version + 1, keys |-> keys]]
  /\ UNCHANGED <<namespace, pc, cache, made>>

\* Each render of an instance has an importer of its own.
Render ==
  /\ pc # "rendering"
  /\ pc' = "rendering"
  /\ cache' = <<>>
  /\ made' = {}
  /\ UNCHANGED <<namespace, libraries, changes>>

Files == {Template} \cup {m.result.foundAt : m \in made}

\* The importer answers: the render goes on, or ends with the error.
Answered(from, statement, result) ==
  /\ made' = made \cup {[from |-> from, statement |-> statement,
                         result |-> result]}
  /\ pc' = IF result.ok THEN pc ELSE "failed"

Importing(from) ==
  /\ pc = "rendering"
  /\ from \in Files \ {Builtin}
  /\ Cardinality(made) < MaxImports
  /\ UNCHANGED <<namespace, libraries, changes>>

\* Faulty: every import reads the library again.
ImportUncached(from, statement) ==
  LET path == MakeAbsoluteImportPath(from, statement)
      result == IF statement = Builtin THEN FoundBuiltin
                                       ELSE LoadFromCluster(path)
  IN
  /\ Importing(from)
  /\ cache' = IF statement = Builtin THEN cache
              ELSE [p \in DOMAIN cache \cup {path} |->
                      IF p = path THEN result ELSE cache[p]]
  /\ Answered(from, statement, result)

\* Faulty: the cache does not know where the statement was met.
ImportCachedByStatement(from, statement) ==
  LET path == MakeAbsoluteImportPath(from, statement)
      result == IF statement = Builtin THEN FoundBuiltin
                ELSE IF statement \in DOMAIN cache THEN cache[statement]
                ELSE LoadFromCluster(path)
  IN
  /\ Importing(from)
  /\ cache' = IF statement = Builtin THEN cache
              ELSE [p \in DOMAIN cache \cup {statement} |->
                      IF p = statement THEN result ELSE cache[p]]
  /\ Answered(from, statement, result)

\* The library that is built in imports nothing and needs no cache; all else is
\* read once, errors too.
Import(from, statement) ==
  LET path == MakeAbsoluteImportPath(from, statement)
      result == IF statement = Builtin THEN FoundBuiltin
                ELSE IF path \in DOMAIN cache THEN cache[path]
                ELSE LoadFromCluster(path)
  IN
  /\ Importing(from)
  /\ cache' = IF statement = Builtin THEN cache
              ELSE [p \in DOMAIN cache \cup {path} |->
                      IF p = path THEN result ELSE cache[p]]
  /\ Answered(from, statement, result)

Rendered ==
  /\ pc = "rendering"
  /\ pc' = "rendered"
  /\ UNCHANGED <<namespace, libraries, changes, cache, made>>

------------------------------------------------------------------------------
(* The command line *)

\* Input.Libraries, the files collect-input writes after its render.
Collected == {cache[path] : path \in DOMAIN cache}

\* Faulty: files are looked up as they are called in the statement.
MemoryImportByName(from, statement) ==
  IF statement = Builtin THEN FoundBuiltin
  ELSE LET hits == {r \in Collected : r.foundAt = WithoutDot(statement)} IN
       IF hits = {} THEN Failure ELSE CHOOSE r \in hits : TRUE

MemoryImport(from, statement) ==
  IF statement = Builtin THEN FoundBuiltin
  ELSE LET hits == {r \in Collected :
                      r.foundAt = MakeAbsoluteImportPath(from, statement)} IN
       IF hits = {} THEN Failure ELSE CHOOSE r \in hits : TRUE

------------------------------------------------------------------------------
Next ==
  \/ \E l \in Namespaces \X Names : Change(l)
  \/ Render
  \/ \E from \in Files, statement \in Statements : Import(from, statement)
  \/ Rendered

Spec == Init /\ [][Next]_vars

------------------------------------------------------------------------------
(* Properties *)

Shared(path) == path = Builtin \/ (Len(path) = 3 /\ path[1] = "lib")

\* The file a statement means by the documentation, <<>> if none:
\* "`espejote.libsonnet` always resolves to the built-in library"; "`./KEY` and
\* `KEY` resolve to the same JsonnetLibrary manifest"; "`./NAME/KEY` and
\* `NAME/KEY` resolve to the same namespace (shared/local)"; lib/NAME/KEY is in
\* the shared namespace.
Documented(from, statement) ==
  LET path == WithoutDot(statement) IN
  CASE statement = Builtin -> Builtin
    [] statement # Builtin /\ Len(path) = 1 /\ from # Template ->
         [from EXCEPT ![Len(from)] = path[1]]
    [] Len(path) = 2 -> IF Shared(from) THEN <<"lib">> \o path ELSE path
    [] Len(path) = 3 /\ path[1] = "lib" -> path
    [] OTHER -> <<>>

Exists(path) ==
  \/ path = Builtin
  \/ /\ Len(path) = 2 /\ namespace # NoNamespace /\ path[1] \in Names
     /\ path[2] \in libraries[<<namespace, path[1]>>].keys
  \/ /\ Len(path) = 3 /\ path[2] \in Names
     /\ path[3] \in libraries[<<LibraryNamespace, path[2]>>].keys

\* The file it stands for there.
DocumentedFile(path) ==
  CASE path = Builtin -> Builtin
    [] Len(path) = 2 -> <<namespace, path[1], path[2]>>
    [] Len(path) = 3 -> <<LibraryNamespace, path[2], path[3]>>
    [] OTHER -> <<>>

\* Every import gives the file the documentation names, and fails only if it is
\* not there.  What a library of the local namespace with the name lib imports
\* by name is excepted: the code takes that library for a shared one.
AnswersAsDocumented ==
  \A m \in made' \ made :
    LET path == Documented(m.from, m.statement) IN
    \/ IF m.result.ok
       THEN m.result.foundAt = path /\ m.result.file = DocumentedFile(path)
       ELSE ~Exists(path)
    \/ /\ Len(m.from) = 2 /\ m.from[1] = "lib"
       /\ Len(WithoutDot(m.statement)) = 2
ResolvesAsDocumented == [][AnswersAsDocumented]_vars

\* A shared library depends on nothing but shared libraries, and where no
\* namespace is configured, as for a ClusterAdmission, nothing local is loaded
\* at all, however imports are chained.
SharedStaysShared ==
  \A m \in made :
    m.result.ok /\ (Shared(m.from) \/ namespace = NoNamespace)
      => Shared(m.result.foundAt)

\* A path stands for the same contents throughout a render, which is what the
\* evaluation asks of an importer, and a file is seen in one version, by
\* whatever statements it is imported and however libraries change in between.
\* A template in the namespace of the shared libraries is excepted from the
\* latter: there NAME/KEY and lib/NAME/KEY are one file with two entries in the
\* cache, which are read one after the other.
OneVersionPerFile ==
  \A m, n \in made :
    /\ m.result.foundAt = n.result.foundAt => m.result = n.result
    /\ namespace # LibraryNamespace /\ m.result.file = n.result.file
         => m.result.version = n.result.version

\* Rendering again from the collected input gives every import the file that it
\* had on the cluster.
OfflineImportsAgree ==
  pc = "rendered" =>
    \A m \in made : MemoryImport(m.from, m.statement) = m.result

=============================================================================
