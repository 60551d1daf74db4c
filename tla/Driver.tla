-------------------------------- MODULE Driver --------------------------------
(***************************************************************************)
(* The two programs from end to end: the Go program walks over a tree of   *)
(* directories and writes the SSA form of each package to a file of its    *)
(* own (main and buildPackage of ssa.go), and the Kotlin program reads     *)
(* these files and interprets the functions in them (Main.kt).             *)
(*                                                                         *)
(* What goes wrong with a Go file is a property of the file.               *)
(***************************************************************************)
EXTENDS Naturals, FiniteSets, SequencesExt

CONSTANTS Trees  \* Trees[name]: what filepath.Walk finds, in its order

(***************************************************************************)
(* An entry of the walk.  A Go file has the path of its directory, its     *)
(* package clause, the functions it declares, which of them have no body   *)
(* or no parameters, and what fails with it: "parse", "build", "encode"    *)
(* (encodeNode panics), "decode" (no class of SsaNode takes the node),     *)
(* "tests" (no Go text for a value of the model, or no room on the stack   *)
(* for another call of testCreature), or nothing.                          *)
(***************************************************************************)
Dir == [kind |-> "dir"]
GoFile(path, clause, functions, bare, fails) ==
    [kind |-> "go", path |-> path, clause |-> clause,
     functions |-> functions, bare |-> bare, fails |-> fails]
Unreadable == [kind |-> "unreadable"]

\* A directory lists finitely many entries, and a file finitely many functions.
ASSUME TreesAssumption ==
    \A t \in DOMAIN Trees :
        /\ Trees[t] \in Seq(Range(Trees[t]))
        /\ \A entry \in Range(Trees[t]) :
              entry.kind = "go" => IsFiniteSet(entry.functions)

\* filepath.Base.  A file of the output directory is named by it alone.
Base(path) == Last(path)

VARIABLES tree,      \* the name of the tree (never changes)
          phase,     \* what main of ssa.go or main of Main.kt is doing
          walked,    \* the number of entries the walk has visited
          files, localPath,
          json,      \* the output directory: package |-> the files it was made of
          unread, current,              \* the JSON files, and the one being read
          atTop,     \* package |-> its functions at the top of its file that are
                     \* written there in full, not as links
          todo, done, timeout, errors,  \* functions of the current file
          interrupted, failed,          \* which functions these were (auxiliary)
          tests      \* package |-> the functions that have a test in its file

goVars == <<walked, files, localPath, json>>
counts == <<done, timeout, errors, interrupted, failed>>
vars == <<tree, phase, goVars, unread, current, atTop, todo, counts, tests>>

Entry == Trees[tree][walked + 1]

Init ==
    /\ tree \in DOMAIN Trees
    /\ phase = "walk"
    /\ walked = 0
    /\ files = {} /\ localPath = <<"">>
    /\ json = <<>>
    /\ unread = {} /\ current = "" /\ atTop = <<>> /\ todo = {}
    /\ done = 0 /\ timeout = 0 /\ errors = 0 /\ interrupted = {} /\ failed = {}
    /\ tests = <<>>

-----------------------------------------------------------------------------

(* ssa.go *)

Fails(fs, how) == \E file \in fs : file.fails = how

\* os.Create, and io.Copy.
Write(package, content) ==
    json' = [p \in DOMAIN json \cup {package} |-> IF p = package THEN content ELSE json[p]]

\* ssautil.BuildPackage: the types of one package are checked, that is one
\* package clause and no name declared twice.
Builds(fs) ==
    /\ ~ Fails(fs, "build")
    /\ \A f, g \in fs : f # g => f.clause = g.clause /\ f.functions \cap g.functions = {}

(***************************************************************************)
(* buildPackage: if the files are no package, the JSON file of an earlier  *)
(* package stays as it is.  It is created, and so empty, when EncodeSSA    *)
(* panics, and the panic ends the program.                                 *)
(***************************************************************************)
BuildPackage(next) ==
    /\ IF ~ Builds(files)
       THEN phase' = next /\ UNCHANGED json
       ELSE IF Fails(files, "encode")
       THEN phase' = "panicked" /\ Write(Base(localPath), {})
       ELSE phase' = next /\ Write(Base(localPath), files)

\* A file that cannot be parsed is left out, but its directory is remembered.
Parsed(file) == IF file.fails = "parse" THEN {} ELSE {file}

\* Mutant: the files of the package before are kept.
FilesKept == files

NoFiles == {}

WalkFile ==
    /\ phase = "walk"
    /\ walked < Len(Trees[tree])
    /\ Entry.kind = "go"
    /\ localPath' = Entry.path
    /\ files' = files \cup Parsed(Entry)
    /\ walked' = walked + 1
    /\ UNCHANGED <<tree, phase, json, unread, current, atTop, todo, counts, tests>>

\* The files found so far are a package when the walk enters a directory.
WalkDir ==
    /\ phase = "walk"
    /\ walked < Len(Trees[tree])
    /\ Entry.kind = "dir"
    /\ walked' = walked + 1
    /\ IF files = {} THEN UNCHANGED <<phase, files, json>>
                     ELSE BuildPackage("walk") /\ files' = NoFiles
    /\ UNCHANGED <<tree, localPath, unread, current, atTop, todo, counts, tests>>

\* An error of the walk ends it, and is ignored.
EndWalk ==
    /\ phase = "walk"
    /\ walked < Len(Trees[tree]) => Entry.kind = "unreadable"
    /\ IF files = {} THEN phase' = "walked" /\ UNCHANGED <<files, json>>
                     ELSE BuildPackage("walked") /\ files' = NoFiles
    /\ UNCHANGED <<tree, walked, localPath, unread, current, atTop, todo, counts, tests>>

-----------------------------------------------------------------------------

(* Main.kt *)

FunctionsIn(package) == UNION {file.functions : file \in json[package]}
BareIn(package) == UNION {file.bare : file \in json[package]}

(***************************************************************************)
(* listFiles, in any order.  A function that one encoded before it         *)
(* mentions is a link at the top of the file; AllFunctions gives them in   *)
(* any order, so that may be any of them.                                  *)
(***************************************************************************)
ListFiles ==
    /\ phase \in {"walked", "panicked"}
    /\ phase' = "read"
    /\ unread' = DOMAIN json
    /\ \E top \in [DOMAIN json -> SUBSET UNION {FunctionsIn(p) : p \in DOMAIN json}] :
         /\ \A p \in DOMAIN json : top[p] \subseteq FunctionsIn(p)
         /\ atTop' = top
    /\ UNCHANGED <<tree, goVars, current, todo, counts, tests>>

\* funcDeclarations: the functions at the top with a body and parameters, one
\* for each name.
FuncDeclarations(package) == atTop[package] \ BareIn(package)

\* decodeFromString throws on an empty file, and on a node it has no class for
\* or that it cannot construct; nothing catches it.
CanDecode(package) == json[package] # {} /\ ~ Fails(json[package], "decode")

ReadFile ==
    /\ phase = "read"
    /\ \E package \in unread :
         /\ unread' = unread \ {package}
         /\ current' = package
         /\ IF CanDecode(package)
            THEN phase' = "interpret" /\ todo' = FuncDeclarations(package)
            ELSE phase' = "died" /\ UNCHANGED todo
    /\ done' = 0 /\ timeout' = 0 /\ errors' = 0 /\ interrupted' = {} /\ failed' = {}
    /\ UNCHANGED <<tree, goVars, atTop, tests>>

Finishes(fn) ==
    /\ done' = done + 1
    /\ UNCHANGED <<timeout, errors, interrupted, failed>>

\* Mutant: the cancellation leaves interpretLoop.
TimesOutAtOnce(fn) ==
    /\ timeout' = timeout + 1
    /\ interrupted' = interrupted \cup {fn}
    /\ UNCHANGED <<done, errors, failed>>

(***************************************************************************)
(* withTimeout cancels the interpretation.  interpretLoop catches that and *)
(* returns what it has found, the function is counted as done, and then    *)
(* withTimeout throws: it is counted as timed out too.                     *)
(***************************************************************************)
TimesOut(fn) ==
    /\ done' = done + 1
    /\ timeout' = timeout + 1
    /\ interrupted' = interrupted \cup {fn}
    /\ UNCHANGED <<errors, failed>>

Throws(fn) ==
    /\ errors' = errors + 1
    /\ failed' = failed \cup {fn}
    /\ UNCHANGED <<done, timeout, interrupted>>

Interpret ==
    /\ phase = "interpret"
    /\ \E fn \in todo :
         /\ todo' = todo \ {fn}
         /\ Finishes(fn) \/ TimesOut(fn) \/ Throws(fn)
    /\ UNCHANGED <<tree, phase, goVars, unread, current, atTop, tests>>

\* Mutant: the tests of a file are written over those of the file before.
TestsOf(fns) == [p \in {current} |-> fns]

\* writeGolangCode: a file of tests for each file of functions.
TestsWith(fns) ==
    [p \in DOMAIN tests \cup {current} |-> IF p = current THEN fns ELSE tests[p]]

\* generateTests for each function, and the next file.  The file of tests has
\* a place for each function; without results there is no test in it.
GenerateTests ==
    /\ phase = "interpret"
    /\ todo = {}
    /\ tests' = TestsWith(FuncDeclarations(current))
    /\ phase' = "read"
    /\ UNCHANGED <<tree, goVars, unread, current, atTop, todo, counts>>

\* A value that symbolicToString does not know, or testCreature calls itself
\* too often: nothing catches the error.
GenerateTestsFails ==
    /\ phase = "interpret"
    /\ todo = {}
    /\ Fails(json[current], "tests")
    /\ FuncDeclarations(current) \ failed # {}
    /\ phase' = "died"
    /\ UNCHANGED <<tree, goVars, unread, current, atTop, todo, counts, tests>>

Report ==
    /\ phase = "read"
    /\ unread = {}
    /\ phase' = "ended"
    /\ UNCHANGED <<tree, goVars, unread, current, atTop, todo, counts, tests>>

Ended == phase \in {"ended", "died"} /\ UNCHANGED vars

Next ==
    \/ WalkFile \/ WalkDir \/ EndWalk
    \/ ListFiles \/ ReadFile \/ Interpret \/ GenerateTests \/ GenerateTestsFails
    \/ Report \/ Ended

Spec == Init /\ [][Next]_vars

-----------------------------------------------------------------------------

(* What the two programs are for. *)

PathsOf(t) == {entry.path : entry \in {e \in Range(Trees[t]) : e.kind = "go"}}

\* No directory has files after a subdirectory: the walk finds a directory
\* between two files if, and only if, they are in different ones.
NoFilesAfterSubdirectory ==
    \A i, j \in 1 .. Len(Trees[tree]) :
        /\ i < j
        /\ Trees[tree][i].kind = "go" /\ Trees[tree][j].kind = "go"
        => (Trees[tree][i].path = Trees[tree][j].path
              <=> \A k \in i .. j : Trees[tree][k].kind # "dir")

DistinctNames ==
    \A p, q \in PathsOf(tree) : Base(p) = Base(q) => p = q

\* The parsed files that the walk came to in the directory path.
FilesIn(path) ==
    {Trees[tree][i] : i \in {k \in 1 .. walked :
        /\ Trees[tree][k].kind = "go"
        /\ Trees[tree][k].path = path
        /\ Trees[tree][k].fails # "parse"}}

(***************************************************************************)
(* If no directory has files after a subdirectory and no two directories   *)
(* have the same name, then each JSON file that is not empty is one whole  *)
(* package: all the files of one directory that could be parsed, and no    *)
(* other file; and after the walk each directory whose files are a package *)
(* has its JSON file, unless the program panicked before it (buildPackage  *)
(* and the three places of main that decide when a package is complete).   *)
(***************************************************************************)
JsonIsPackage ==
    NoFilesAfterSubdirectory /\ DistinctNames =>
        /\ \A path \in PathsOf(tree) :
             /\ Base(path) \in DOMAIN json
             /\ json[Base(path)] # {}
             => json[Base(path)] = FilesIn(path)
        /\ phase = "walked" =>
             \A path \in PathsOf(tree) :
                 FilesIn(path) # {} /\ Builds(FilesIn(path)) => Base(path) \in DOMAIN json

(***************************************************************************)
(* What main of Main.kt prints for a file: SUCCESSFUL and ERROR add up to  *)
(* the functions that were interpreted, whatever happened to each of them, *)
(* and TIMEOUT counts functions that are successful as well, never one     *)
(* with an error.                                                          *)
(***************************************************************************)
CountsAddUp ==
    phase = "interpret" =>
        /\ done + errors = Cardinality(FuncDeclarations(current) \ todo)
        /\ errors = Cardinality(failed)
        /\ timeout = Cardinality(interrupted)
        /\ timeout <= done

(***************************************************************************)
(* When main of Main.kt ends by itself, there is a file of tests for each  *)
(* JSON file, with a place for every function that was found in it, the    *)
(* functions that timed out or failed included: no function of an earlier  *)
(* file is lost for a later one.                                           *)
(***************************************************************************)
EveryFunctionHasTests ==
    phase = "ended" =>
        /\ DOMAIN tests = DOMAIN json
        /\ \A package \in DOMAIN json : tests[package] = FuncDeclarations(package)
==============================================================================
