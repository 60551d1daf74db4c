---------------------------- MODULE Driver_proofs ----------------------------
(***************************************************************************)
(* Proofs about Driver, for every collection of finite trees: what the two *)
(* programs count, which functions get a place in the tests, and what is   *)
(* in a JSON file.                                                         *)
(***************************************************************************)
EXTENDS Driver, FiniteSetTheorems, TLAPS

Phases == {"walk", "walked", "panicked", "read", "interpret", "ended", "died"}

(***************************************************************************)
(* The functions of a package are finitely many.                           *)
(***************************************************************************)
FinitePackage(fs) == IsFiniteSet(fs) /\ \A file \in fs : IsFiniteSet(file.functions)

LEMMA FiniteFunctions ==
    ASSUME NEW fs, FinitePackage(fs)
    PROVE  IsFiniteSet(UNION {file.functions : file \in fs})
<1> DEFINE functions == {file.functions : file \in fs}
<1>1. IsFiniteSet(functions)
  <2> DEFINE of == [file \in fs |-> file.functions]
  <2>1. of \in Surjection(fs, functions)
    BY DEF Surjection
  <2> QED
    BY <2>1, FS_Surjection DEF FinitePackage
<1>2. \A S \in functions : IsFiniteSet(S)
  BY DEF FinitePackage
<1> HIDE DEF functions
<1>3. IsFiniteSet(UNION functions)
  BY <1>1, <1>2, FS_UNION
<1> QED
  BY <1>3 DEF functions

LEMMA EntryFacts ==
    ASSUME tree \in DOMAIN Trees, walked \in Nat, walked < Len(Trees[tree])
    PROVE  Entry.kind = "go" => IsFiniteSet(Entry.functions)
<1>1. Entry \in Range(Trees[tree])
  BY TreesAssumption DEF Entry, Range
<1> QED
  BY <1>1, TreesAssumption

LEMMA BuildPackageFacts ==
    ASSUME NEW next, BuildPackage(next)
    PROVE  /\ phase' \in {next, "panicked"}
           /\ \/ json' = json
              \/ \E content \in {files, {}} : Write(Base(localPath), content)
BY DEF BuildPackage

-----------------------------------------------------------------------------

(* The counts *)

(***************************************************************************)
(* CountsAddUp with what it rests on: every file is a finite package, and  *)
(* the functions that failed or timed out are among those that are done.   *)
(***************************************************************************)
Countable ==
    /\ phase \in Phases
    /\ tree \in DOMAIN Trees
    /\ walked \in Nat
    /\ FinitePackage(files)
    /\ \A package \in DOMAIN json : FinitePackage(json[package])
    /\ unread \subseteq DOMAIN json
    /\ phase \in {"read", "interpret"} =>
          \A package \in DOMAIN json : IsFiniteSet(FuncDeclarations(package))

Counted ==
    phase = "interpret" =>
        /\ current \in DOMAIN json
        /\ todo \subseteq FuncDeclarations(current)
        /\ failed \subseteq FuncDeclarations(current) \ todo
        /\ interrupted \subseteq FuncDeclarations(current) \ todo
        /\ done \in Nat /\ errors \in Nat /\ timeout \in Nat
        /\ done + errors = Cardinality(FuncDeclarations(current) \ todo)
        /\ errors = Cardinality(failed)
        /\ timeout = Cardinality(interrupted)
        /\ timeout <= done

LEMMA CountableInit == Init => Countable /\ Counted
<1> SUFFICES ASSUME Init PROVE Countable /\ Counted
  OBVIOUS
<1>1. DOMAIN json = {} /\ files = {} /\ unread = {}
  <2>1. json = <<>> /\ files = {} /\ unread = {}
    BY DEF Init
  <2>2. DOMAIN <<>> = {}
    OBVIOUS
  <2> QED
    BY <2>1, <2>2
<1>2. FinitePackage({})
  BY FS_EmptySet DEF FinitePackage
<1>3. phase = "walk" /\ tree \in DOMAIN Trees /\ walked = 0
  BY DEF Init
<1> QED
  BY <1>1, <1>2, <1>3 DEF Countable, Counted, Phases

LEMMA CountableNext == Countable /\ [Next]_vars => Countable'
<1> SUFFICES ASSUME Countable, [Next]_vars PROVE Countable'
  OBVIOUS
<1> USE DEF Countable, Phases
<1>1. CASE WalkFile
  <2>1. FinitePackage(files')
    <3>1. IsFiniteSet(Parsed(Entry)) /\ \A file \in Parsed(Entry) : IsFiniteSet(file.functions)
      BY <1>1, EntryFacts, FS_EmptySet, FS_Singleton DEF Parsed, WalkFile
    <3>2. IsFiniteSet(files \cup Parsed(Entry))
      BY <3>1, FS_Union DEF FinitePackage
    <3> QED
      BY <1>1, <3>1, <3>2 DEF WalkFile, FinitePackage
  <2> QED
    BY <1>1, <2>1 DEF WalkFile
<1>2. FinitePackage({})
  BY FS_EmptySet DEF FinitePackage
<1>3. ASSUME NEW next \in Phases, BuildPackage(next)
      PROVE  /\ phase' \in {next, "panicked"}
             /\ \A package \in DOMAIN json' : FinitePackage(json'[package])
             /\ DOMAIN json \subseteq DOMAIN json'
  BY <1>2, <1>3, BuildPackageFacts DEF Write
<1>4. CASE WalkDir
  <2>1. /\ files' \in {files, {}}
        /\ \/ phase' = phase /\ json' = json
           \/ BuildPackage("walk")
    BY <1>4 DEF WalkDir, NoFiles
  <2>2. /\ phase' \in {"walk", "panicked"}
        /\ \A package \in DOMAIN json' : FinitePackage(json'[package])
        /\ DOMAIN json \subseteq DOMAIN json'
    BY <1>4, <2>1, <1>3 DEF WalkDir
  <2>3. tree' = tree /\ walked' \in Nat /\ unread' = unread
    BY <1>4 DEF WalkDir
  <2> QED
    BY <1>2, <2>1, <2>2, <2>3
<1>5. CASE EndWalk
  <2>1. /\ files' \in {files, {}} /\ UNCHANGED <<tree, walked, unread>>
        /\ \/ phase' = "walked" /\ json' = json
           \/ BuildPackage("walked")
    BY <1>5 DEF EndWalk, NoFiles
  <2>2. /\ phase' \in {"walked", "panicked"}
        /\ \A package \in DOMAIN json' : FinitePackage(json'[package])
        /\ DOMAIN json \subseteq DOMAIN json'
    BY <2>1, <1>3
  <2> QED
    BY <1>2, <2>1, <2>2
<1>6. CASE ListFiles
  <2>1. /\ json' = json /\ unread' = DOMAIN json /\ phase' = "read"
        /\ UNCHANGED <<tree, walked, files>>
    BY <1>6 DEF ListFiles, goVars
  <2>2. \A p \in DOMAIN json : atTop'[p] \subseteq FunctionsIn(p)
    BY <1>6 DEF ListFiles
  <2>3. ASSUME NEW p \in DOMAIN json' PROVE IsFiniteSet(FuncDeclarations(p)')
    <3>1. IsFiniteSet(FunctionsIn(p))
      BY <2>1, <2>3, FiniteFunctions DEF FunctionsIn
    <3>2. FuncDeclarations(p)' \subseteq FunctionsIn(p)
      BY <2>1, <2>2, <2>3 DEF FuncDeclarations
    <3> QED
      BY <3>1, <3>2, FS_Subset
  <2> QED
    BY <2>1, <2>3
<1>7. CASE ReadFile
  <2>1. phase = "read" /\ phase' \in {"interpret", "died"}
    BY <1>7 DEF ReadFile
  <2>2. UNCHANGED <<tree, walked, files, json, atTop>> /\ unread' \subseteq unread
    BY <1>7 DEF ReadFile, goVars
  <2>3. \A p : FuncDeclarations(p)' = FuncDeclarations(p)
    BY <2>2 DEF FuncDeclarations, BareIn
  <2> QED
    BY <2>1, <2>2, <2>3
<1>8. CASE Interpret
  BY <1>8 DEF Interpret, goVars, FuncDeclarations, BareIn
<1>9. CASE GenerateTests \/ GenerateTestsFails \/ Report
  BY <1>9 DEF GenerateTests, GenerateTestsFails, Report, goVars, FuncDeclarations, BareIn
<1>10. CASE UNCHANGED vars
  BY <1>10 DEF vars, goVars, FuncDeclarations, BareIn
<1> QED
  BY <1>1, <1>4, <1>5, <1>6, <1>7, <1>8, <1>9, <1>10 DEF Next, Ended

LEMMA CountedNext == Countable /\ Counted /\ [Next]_vars => Counted'
<1> SUFFICES ASSUME Countable, Counted, [Next]_vars, phase' = "interpret"
             PROVE  /\ current' \in DOMAIN json'
                    /\ todo' \subseteq FuncDeclarations(current)'
                    /\ failed' \subseteq FuncDeclarations(current)' \ todo'
                    /\ interrupted' \subseteq FuncDeclarations(current)' \ todo'
                    /\ done' \in Nat /\ errors' \in Nat /\ timeout' \in Nat
                    /\ done' + errors' = Cardinality(FuncDeclarations(current)' \ todo')
                    /\ errors' = Cardinality(failed')
                    /\ timeout' = Cardinality(interrupted')
                    /\ timeout' <= done'
  BY DEF Counted
<1>1. CASE ReadFile
  <2>1. todo' = FuncDeclarations(current)' /\ current' \in DOMAIN json'
    BY <1>1 DEF ReadFile, Countable, FuncDeclarations, BareIn, goVars
  <2>2. done' = 0 /\ timeout' = 0 /\ errors' = 0 /\ interrupted' = {} /\ failed' = {}
    BY <1>1 DEF ReadFile
  <2>3. FuncDeclarations(current)' \ todo' = {}
    BY <2>1
  <2> QED
    BY <2>1, <2>2, <2>3, FS_EmptySet
<1>2. CASE Interpret
  <2> DEFINE functions == FuncDeclarations(current)
  <2>1. PICK fn \in todo : /\ todo' = todo \ {fn}
                           /\ Finishes(fn) \/ TimesOut(fn) \/ Throws(fn)
    BY <1>2 DEF Interpret
  <2>2. /\ current \in DOMAIN json
        /\ todo \subseteq functions
        /\ failed \subseteq functions \ todo
        /\ interrupted \subseteq functions \ todo
        /\ done \in Nat /\ errors \in Nat /\ timeout \in Nat
        /\ done + errors = Cardinality(functions \ todo)
        /\ errors = Cardinality(failed)
        /\ timeout = Cardinality(interrupted)
        /\ timeout <= done
    BY <1>2 DEF Interpret, Counted
  <2>3. FuncDeclarations(current)' = functions /\ current' \in DOMAIN json'
    BY <1>2, <2>2 DEF Interpret, FuncDeclarations, BareIn, goVars
  <2>4. IsFiniteSet(functions)
    BY <1>2, <2>2 DEF Countable, Interpret
  <2> HIDE DEF functions
  <2>5. functions \ todo' = (functions \ todo) \cup {fn} /\ fn \notin functions \ todo
    BY <2>1, <2>2
  <2>6. IsFiniteSet(functions \ todo) /\ IsFiniteSet(failed) /\ IsFiniteSet(interrupted)
    BY <2>2, <2>4, FS_Difference, FS_Subset
  <2>7. /\ Cardinality(functions \ todo') = Cardinality(functions \ todo) + 1
        /\ Cardinality(failed \cup {fn}) = Cardinality(failed) + 1
        /\ Cardinality(interrupted \cup {fn}) = Cardinality(interrupted) + 1
    <3>1. Cardinality((functions \ todo) \cup {fn}) = Cardinality(functions \ todo) + 1
      BY <2>5, <2>6, FS_AddElement
    <3>2. Cardinality(failed \cup {fn}) = Cardinality(failed) + 1
      <4>1. fn \notin failed
        BY <2>2, <2>5
      <4> QED
        BY <4>1, <2>6, FS_AddElement
    <3>3. Cardinality(interrupted \cup {fn}) = Cardinality(interrupted) + 1
      <4>1. fn \notin interrupted
        BY <2>2, <2>5
      <4> QED
        BY <4>1, <2>6, FS_AddElement
    <3> QED
      BY <2>5, <3>1, <3>2, <3>3
  <2>8. todo' \subseteq functions
    BY <2>1, <2>2
  <2>9. CASE Finishes(fn)
    BY <2>2, <2>3, <2>5, <2>7, <2>8, <2>9 DEF Finishes
  <2>10. CASE TimesOut(fn)
    BY <2>2, <2>3, <2>5, <2>7, <2>8, <2>10 DEF TimesOut
  <2>11. CASE Throws(fn)
    BY <2>2, <2>3, <2>5, <2>7, <2>8, <2>11 DEF Throws
  <2> QED
    BY <2>1, <2>9, <2>10, <2>11
<1>3. CASE UNCHANGED vars
  BY <1>3 DEF Counted, FuncDeclarations, BareIn, vars, goVars, counts
<1>4. CASE WalkFile \/ ListFiles \/ GenerateTests \/ GenerateTestsFails \/ Report
  BY <1>4 DEF WalkFile, ListFiles, GenerateTests, GenerateTestsFails, Report
<1>5. CASE WalkDir \/ EndWalk
  BY <1>5, BuildPackageFacts DEF WalkDir, EndWalk
<1> QED
  BY <1>1, <1>2, <1>3, <1>4, <1>5 DEF Next, Ended

(***************************************************************************)
(* For every tree, what main of Main.kt prints for a file adds up to the   *)
(* functions it has interpreted, and no function that timed out counts as  *)
(* an error.                                                               *)
(***************************************************************************)
THEOREM TotalsAreRight == Spec => []CountsAddUp
<1>1. Countable /\ Counted /\ [Next]_vars => (Countable /\ Counted)'
  BY CountableNext, CountedNext
<1>2. Counted => CountsAddUp
  BY DEF Counted, CountsAddUp
<1> QED
  BY CountableInit, <1>1, <1>2, PTL DEF Spec

-----------------------------------------------------------------------------

(* The tests *)

(***************************************************************************)
(* Each JSON file is unread, being read, or has its tests.                 *)
(***************************************************************************)
Tested ==
    CASE phase \in {"walk", "walked", "panicked"} -> DOMAIN tests = {}
      [] phase = "read"      -> DOMAIN tests \cup unread = DOMAIN json
      [] phase = "interpret" -> DOMAIN tests \cup unread \cup {current} = DOMAIN json
      [] phase = "ended"     -> DOMAIN tests = DOMAIN json
      [] OTHER               -> TRUE

TestsComplete ==
    \A package \in DOMAIN tests : tests[package] = FuncDeclarations(package)

LEMMA TestedInit == Init => Tested /\ TestsComplete
<1> SUFFICES ASSUME Init PROVE Tested /\ TestsComplete
  OBVIOUS
<1>1. tests = <<>> /\ phase = "walk"
  BY DEF Init
<1>2. DOMAIN <<>> = {}
  OBVIOUS
<1> QED
  BY <1>1, <1>2 DEF Tested, TestsComplete

LEMMA TestedNext ==
    phase \in Phases /\ Tested /\ TestsComplete /\ [Next]_vars
        => Tested' /\ TestsComplete'
<1> SUFFICES ASSUME phase \in Phases, Tested, TestsComplete, [Next]_vars
             PROVE  Tested' /\ TestsComplete'
  OBVIOUS
<1>1. CASE WalkFile \/ WalkDir \/ EndWalk
  <2>1. DOMAIN tests = {} /\ tests' = tests
    BY <1>1 DEF WalkFile, WalkDir, EndWalk, Tested
  <2>2. phase' \in {"walk", "walked", "panicked"}
    BY <1>1, BuildPackageFacts DEF WalkFile, WalkDir, EndWalk
  <2> QED
    BY <2>1, <2>2 DEF Tested, TestsComplete
<1>2. CASE ListFiles
  <2>1. /\ DOMAIN tests = {} /\ tests' = tests /\ json' = json
        /\ unread' = DOMAIN json /\ phase' = "read"
    BY <1>2 DEF ListFiles, goVars, Tested
  <2> QED
    BY <2>1 DEF Tested, TestsComplete
<1>3. CASE ReadFile
  <2>1. TestsComplete'
    BY <1>3 DEF ReadFile, goVars, TestsComplete, FuncDeclarations, BareIn
  <2>2. PICK package \in unread :
           /\ unread' = unread \ {package}
           /\ current' = package
           /\ phase' \in {"interpret", "died"}
    BY <1>3 DEF ReadFile
  <2>3. tests' = tests /\ json' = json /\ DOMAIN tests \cup unread = DOMAIN json
    BY <1>3 DEF ReadFile, goVars, Tested
  <2> QED
    BY <2>1, <2>2, <2>3 DEF Tested
<1>4. CASE Interpret
  BY <1>4 DEF Interpret, goVars, Tested, TestsComplete, FuncDeclarations, BareIn
<1>5. CASE GenerateTests
  <2>1. /\ json' = json /\ unread' = unread /\ atTop' = atTop
        /\ phase = "interpret" /\ phase' = "read"
    BY <1>5 DEF GenerateTests, goVars
  <2>2. tests' = TestsWith(FuncDeclarations(current))
    BY <1>5 DEF GenerateTests
  <2>3. DOMAIN tests' = DOMAIN tests \cup {current}
    BY <2>2 DEF TestsWith
  <2>4. Tested'
    BY <2>1, <2>3 DEF Tested
  <2>5. ASSUME NEW package \in DOMAIN tests'
        PROVE  tests'[package] = FuncDeclarations(package)'
    BY <2>1, <2>2, <2>3, <2>5 DEF TestsWith, TestsComplete, FuncDeclarations, BareIn
  <2> QED
    BY <2>4, <2>5 DEF TestsComplete
<1>6. CASE GenerateTestsFails \/ Report
  BY <1>6 DEF GenerateTestsFails, Report, goVars, Tested, TestsComplete,
              FuncDeclarations, BareIn
<1>7. CASE UNCHANGED vars
  BY <1>7 DEF vars, goVars, Tested, TestsComplete, FuncDeclarations, BareIn
<1> QED
  BY <1>1, <1>2, <1>3, <1>4, <1>5, <1>6, <1>7 DEF Next, Ended

(***************************************************************************)
(* For every tree: if main of Main.kt ends by itself, every function that  *)
(* it found in a JSON file has its place in a file of tests.               *)
(***************************************************************************)
THEOREM NoFunctionWithoutPlace == Spec => []EveryFunctionHasTests
<1>1. /\ Countable /\ Tested /\ TestsComplete /\ [Next]_vars
         => (Countable /\ Tested /\ TestsComplete)'
  BY CountableNext, TestedNext DEF Countable
<1>2. Init => Countable /\ Tested /\ TestsComplete
  BY CountableInit, TestedInit
<1>3. Tested /\ TestsComplete => EveryFunctionHasTests
  BY DEF Tested, TestsComplete, EveryFunctionHasTests
<1> QED
  BY <1>1, <1>2, <1>3, PTL DEF Spec

-----------------------------------------------------------------------------

(* The JSON files *)

GoAt(i) == Trees[tree][i].kind = "go"
PathAt(i) == Trees[tree][i].path
DirBetween(i, j) == \E d \in i .. j : Trees[tree][d].kind = "dir"

Regular == NoFilesAfterSubdirectory /\ DistinctNames

\* The Go files since the last directory.
Since == {i \in 1 .. walked : GoAt(i) /\ ~ DirBetween(i, walked)}

ParsedFiles(S) == {Trees[tree][i] : i \in {k \in S : Trees[tree][k].fails # "parse"}}

(***************************************************************************)
(* During the walk, files are those found since the last directory; in a   *)
(* regular tree they are all of one directory.                             *)
(***************************************************************************)
Walking ==
    /\ tree \in DOMAIN Trees
    /\ walked \in 0 .. Len(Trees[tree])
    /\ phase = "walk" => files = ParsedFiles(Since)
    /\ phase = "walk" => \A i \in Since : Regular => localPath = PathAt(i)

\* A JSON file that is not empty is the package of its directory, and the
\* walk has left that directory.
WholePackages ==
    \A path \in PathsOf(tree) :
        /\ Base(path) \in DOMAIN json
        /\ json[Base(path)] # {}
        => /\ json[Base(path)] = FilesIn(path)
           /\ phase = "walk" =>
                \A i \in 1 .. walked : GoAt(i) /\ PathAt(i) = path => DirBetween(i, walked)

\* A package has its JSON file once the walk has left its directory.
EveryPackage ==
    phase \in {"walk", "walked"} =>
        \A path \in PathsOf(tree) : \A i \in 1 .. walked :
            /\ GoAt(i) /\ PathAt(i) = path /\ Trees[tree][i].fails # "parse"
            /\ DirBetween(i, walked) \/ phase = "walked"
            /\ Builds(FilesIn(path))
            => Base(path) \in DOMAIN json

JsonInv == Walking /\ (Regular => WholePackages /\ EveryPackage)

LEMMA JsonInit == Init => JsonInv
<1> SUFFICES ASSUME Init PROVE JsonInv
  OBVIOUS
<1>1. walked = 0 /\ files = {} /\ phase = "walk" /\ json = <<>> /\ tree \in DOMAIN Trees
  BY DEF Init
<1>2. DOMAIN json = {}
  <2>1. DOMAIN <<>> = {}
    OBVIOUS
  <2> QED
    BY <1>1, <2>1
<1>3. 1 .. walked = {} /\ Since = {}
  BY <1>1 DEF Since
<1>4. walked \in 0 .. Len(Trees[tree])
  BY <1>1, TreesAssumption
<1>5. ParsedFiles(Since) = {}
  BY <1>3 DEF ParsedFiles
<1>6. Walking
  BY <1>1, <1>3, <1>4, <1>5 DEF Walking
<1>7. WholePackages /\ EveryPackage
  BY <1>2, <1>3 DEF WholePackages, EveryPackage
<1> QED
  BY <1>6, <1>7 DEF JsonInv

(***************************************************************************)
(* In a regular tree, files are all that was parsed of the directory that  *)
(* the walk is in.                                                         *)
(***************************************************************************)
LEMMA FilesAreOfOneDirectory ==
    ASSUME Walking, Regular, phase = "walk", NEW i \in Since
    PROVE  /\ FilesIn(localPath) = files
           /\ localPath \in PathsOf(tree)
<1>1. Trees[tree] \in Seq(Range(Trees[tree])) /\ walked \in 0 .. Len(Trees[tree])
  BY TreesAssumption DEF Walking
<1>2. i \in 1 .. Len(Trees[tree]) /\ GoAt(i) /\ localPath = PathAt(i)
  BY <1>1 DEF Walking, Since
<1>3. localPath \in PathsOf(tree)
  BY <1>1, <1>2 DEF PathsOf, GoAt, PathAt, Range
<1>4. ASSUME NEW k \in 1 .. walked, GoAt(k), PathAt(k) = localPath
      PROVE  ~ DirBetween(k, walked)
  <2> SUFFICES ASSUME NEW d \in k .. walked, Trees[tree][d].kind = "dir"
               PROVE  FALSE
    BY DEF DirBetween
  <2>1. ~ (d \in i .. walked)
    BY DEF Since, DirBetween
  <2>2. k < i /\ d \in k .. i
    BY <1>1, <1>2, <2>1
  <2>3. k \in 1 .. Len(Trees[tree])
    BY <1>1
  <2> QED
    BY <1>2, <1>4, <2>2, <2>3 DEF Regular, NoFilesAfterSubdirectory, GoAt, PathAt
<1>5. Since = {k \in 1 .. walked : GoAt(k) /\ PathAt(k) = localPath}
  BY <1>4 DEF Since, Walking
<1>6. FilesIn(localPath) = ParsedFiles(Since)
  BY <1>5 DEF FilesIn, ParsedFiles, GoAt, PathAt
<1> QED
  BY <1>3, <1>6 DEF Walking

LEMMA JsonWalkFile == JsonInv /\ WalkFile => JsonInv'
<1> SUFFICES ASSUME JsonInv, WalkFile PROVE JsonInv'
  OBVIOUS
<1> DEFINE n == walked + 1
<1>1. /\ tree' = tree /\ json' = json /\ phase' = phase /\ phase = "walk"
      /\ walked' = n /\ GoAt(n) /\ localPath' = PathAt(n)
      /\ files' = files \cup Parsed(Trees[tree][n])
  BY DEF WalkFile, Entry, GoAt, PathAt
<1>2. /\ walked \in Nat /\ n \in 1 .. Len(Trees[tree])
      /\ Trees[tree] \in Seq(Range(Trees[tree]))
  BY TreesAssumption DEF JsonInv, Walking, WalkFile
<1>3. \A i \in 1 .. walked : DirBetween(i, n) <=> DirBetween(i, walked)
  <2> SUFFICES ASSUME NEW i \in 1 .. walked
               PROVE  DirBetween(i, n) <=> DirBetween(i, walked)
    OBVIOUS
  <2>1. i .. n = (i .. walked) \cup {n}
    BY <1>2
  <2>2. Trees[tree][n].kind # "dir"
    BY <1>1 DEF GoAt
  <2> QED
    BY <2>1, <2>2 DEF DirBetween
<1>4. ~ DirBetween(n, n)
  BY <1>1, <1>2 DEF DirBetween, GoAt
<1>5. Since' = Since \cup {n}
  <2>1. 1 .. n = (1 .. walked) \cup {n}
    BY <1>2
  <2>2. Since' = {i \in 1 .. n : GoAt(i) /\ ~ DirBetween(i, n)}
    BY <1>1 DEF Since, GoAt, DirBetween
  <2> QED
    BY <1>1, <1>3, <1>4, <2>1, <2>2 DEF Since
<1>6. Regular' <=> Regular
  BY <1>1 DEF Regular, NoFilesAfterSubdirectory, DistinctNames, PathsOf
<1>7. Regular => \A i \in 1 .. walked :
          GoAt(i) => (PathAt(i) = PathAt(n) <=> ~ DirBetween(i, walked))
  <2> SUFFICES ASSUME Regular, NEW i \in 1 .. walked, GoAt(i)
               PROVE  PathAt(i) = PathAt(n) <=> ~ DirBetween(i, n)
    BY <1>3
  <2>1. i \in 1 .. Len(Trees[tree]) /\ i < n
    BY <1>2
  <2> QED
    BY <1>1, <1>2, <2>1 DEF Regular, NoFilesAfterSubdirectory, GoAt, PathAt, DirBetween
<1>8. Walking'
  <2>1. files' = ParsedFiles(Since)'
    <3>1. files = ParsedFiles(Since)
      BY <1>1 DEF JsonInv, Walking
    <3>2. ParsedFiles(Since)' = ParsedFiles(Since \cup {n})
      BY <1>1, <1>5 DEF ParsedFiles
    <3>3. ParsedFiles(Since \cup {n}) = ParsedFiles(Since) \cup Parsed(Trees[tree][n])
      BY DEF ParsedFiles, Parsed
    <3> QED
      BY <1>1, <3>1, <3>2, <3>3
  <2>2. \A i \in Since' : Regular' => localPath' = PathAt(i)'
    <3> SUFFICES ASSUME NEW i \in Since \cup {n}, Regular PROVE PathAt(n) = PathAt(i)
      BY <1>1, <1>5, <1>6 DEF PathAt
    <3> QED
      BY <1>7 DEF Since
  <2> QED
    BY <1>1, <1>2, <2>1, <2>2 DEF JsonInv, Walking
<1>9. ASSUME Regular, NEW path \in PathsOf(tree), NEW i \in 1 .. walked,
             GoAt(i), PathAt(i) = path, DirBetween(i, walked)
      PROVE  path # PathAt(n)
  BY <1>7, <1>9
<1>10. ASSUME NEW path, path # PathAt(n)
       PROVE  FilesIn(path)' = FilesIn(path)
  <2>1. 1 .. n = (1 .. walked) \cup {n}
    BY <1>2
  <2>2. FilesIn(path)' = {Trees[tree][i] : i \in {k \in 1 .. n :
            GoAt(k) /\ PathAt(k) = path /\ Trees[tree][k].fails # "parse"}}
    BY <1>1 DEF FilesIn, GoAt, PathAt
  <2>3. FilesIn(path) = {Trees[tree][i] : i \in {k \in 1 .. walked :
            GoAt(k) /\ PathAt(k) = path /\ Trees[tree][k].fails # "parse"}}
    BY DEF FilesIn, GoAt, PathAt
  <2> QED
    BY <1>10, <2>1, <2>2, <2>3
<1>11. ASSUME Regular PROVE WholePackages'
  <2> SUFFICES ASSUME NEW path \in PathsOf(tree),
                      Base(path) \in DOMAIN json, json[Base(path)] # {}
               PROVE  /\ json[Base(path)] = FilesIn(path)'
                      /\ \A i \in 1 .. n : GoAt(i) /\ PathAt(i) = path => DirBetween(i, n)
    BY <1>1 DEF WholePackages, PathsOf, GoAt, PathAt, DirBetween
  <2>1. /\ json[Base(path)] = FilesIn(path)
        /\ \A i \in 1 .. walked : GoAt(i) /\ PathAt(i) = path => DirBetween(i, walked)
    BY <1>1, <1>11 DEF JsonInv, WholePackages
  <2>2. path # PathAt(n)
    <3>1. PICK i \in 1 .. walked : GoAt(i) /\ PathAt(i) = path
      BY <2>1 DEF FilesIn, GoAt, PathAt
    <3> QED
      BY <1>9, <1>11, <2>1, <3>1
  <2>3. 1 .. n = (1 .. walked) \cup {n}
    BY <1>2
  <2> QED
    BY <1>3, <1>10, <2>1, <2>2, <2>3
<1>12. ASSUME Regular PROVE EveryPackage'
  <2> SUFFICES ASSUME NEW path \in PathsOf(tree), NEW i \in 1 .. n,
                      GoAt(i), PathAt(i) = path, Trees[tree][i].fails # "parse",
                      DirBetween(i, n), Builds(FilesIn(path)')
               PROVE  Base(path) \in DOMAIN json
    BY <1>1 DEF EveryPackage, PathsOf, GoAt, PathAt, DirBetween, Builds, Fails
  <2>1. i \in 1 .. walked /\ DirBetween(i, walked)
    BY <1>2, <1>3, <1>4
  <2>2. FilesIn(path)' = FilesIn(path)
    BY <1>9, <1>10, <1>12, <2>1
  <2> QED
    BY <1>1, <1>12, <2>1, <2>2 DEF JsonInv, EveryPackage
<1> QED
  BY <1>6, <1>8, <1>11, <1>12 DEF JsonInv

(***************************************************************************)
(* The end of a package: the JSON files are right for the entries that the *)
(* walk has visited by then, although the phase is about to change.        *)
(***************************************************************************)
LEMMA PackageWritten ==
    ASSUME JsonInv, Regular, phase = "walk",
           NEW next, files # {}, BuildPackage(next)
    PROVE  /\ \A path \in PathsOf(tree) :
                 /\ Base(path) \in DOMAIN json'
                 /\ json'[Base(path)] # {}
                 => json'[Base(path)] = FilesIn(path)
           /\ phase' # "panicked" =>
                \A path \in PathsOf(tree) : \A i \in 1 .. walked :
                    /\ GoAt(i) /\ PathAt(i) = path /\ Trees[tree][i].fails # "parse"
                    /\ Builds(FilesIn(path))
                    => Base(path) \in DOMAIN json'
<1>1. PICK j \in Since : TRUE
  BY DEF JsonInv, Walking, ParsedFiles
<1>2. FilesIn(localPath) = files /\ localPath \in PathsOf(tree)
  BY <1>1, FilesAreOfOneDirectory DEF JsonInv
<1>3. WholePackages /\ EveryPackage
  BY DEF JsonInv
<1>4. \/ json' = json
      \/ \E content \in {files, {}} : Write(Base(localPath), content)
  BY BuildPackageFacts
<1>5. DOMAIN json \subseteq DOMAIN json'
  BY <1>4 DEF Write
<1>6. ASSUME NEW path \in PathsOf(tree), Base(path) \in DOMAIN json',
             json'[Base(path)] # {}
      PROVE  json'[Base(path)] = FilesIn(path)
  <2>1. CASE Base(path) = Base(localPath) /\ json' # json
    <3>1. path = localPath
      BY <1>2, <2>1 DEF Regular, DistinctNames
    <3>2. json'[Base(path)] \in {files, {}}
      BY <1>4, <2>1 DEF Write
    <3> QED
      BY <1>2, <1>6, <3>1, <3>2
  <2>2. CASE Base(path) # Base(localPath) \/ json' = json
    <3>1. Base(path) \in DOMAIN json /\ json'[Base(path)] = json[Base(path)]
      BY <1>4, <1>6, <2>2 DEF Write
    <3> QED
      BY <1>3, <1>6, <3>1 DEF WholePackages
  <2> QED
    BY <2>1, <2>2
<1>7. ASSUME NEW path \in PathsOf(tree), NEW i \in 1 .. walked, phase' # "panicked",
             GoAt(i), PathAt(i) = path, Trees[tree][i].fails # "parse",
             Builds(FilesIn(path))
      PROVE  Base(path) \in DOMAIN json'
  <2>1. CASE DirBetween(i, walked)
    BY <1>3, <1>5, <1>7, <2>1 DEF EveryPackage
  <2>2. CASE ~ DirBetween(i, walked)
    <3>1. i \in Since /\ path = localPath
      BY <1>7, <2>2 DEF Since, JsonInv, Walking
    <3>2. Builds(files)
      BY <1>2, <1>7, <3>1
    <3> QED
      BY <1>7, <3>1, <3>2 DEF BuildPackage, Write
  <2> QED
    BY <2>1, <2>2
<1> QED
  BY <1>6, <1>7

LEMMA JsonWalkDir == JsonInv /\ WalkDir => JsonInv'
<1> SUFFICES ASSUME JsonInv, WalkDir PROVE JsonInv'
  OBVIOUS
<1> DEFINE n == walked + 1
<1>1. /\ tree' = tree /\ walked' = n /\ phase = "walk"
      /\ localPath' = localPath
      /\ Trees[tree][n].kind = "dir"
      /\ files' = {}
  BY DEF WalkDir, Entry, NoFiles
<1>2. /\ walked \in Nat /\ n \in 1 .. Len(Trees[tree])
  BY TreesAssumption DEF JsonInv, Walking, WalkDir
<1>3. \A i \in 1 .. n : DirBetween(i, n)
  BY <1>1, <1>2 DEF DirBetween
<1>4. Since' = {}
  BY <1>1, <1>3 DEF Since, DirBetween
<1>5. Regular' <=> Regular
  BY <1>1 DEF Regular, NoFilesAfterSubdirectory, DistinctNames, PathsOf
<1>6. Walking'
  <2>1. ParsedFiles(Since)' = {}
    BY <1>4 DEF ParsedFiles
  <2> QED
    BY <1>1, <1>2, <1>4, <2>1 DEF JsonInv, Walking
<1>7. \A path : FilesIn(path)' = FilesIn(path)
  <2> SUFFICES ASSUME NEW path PROVE FilesIn(path)' = FilesIn(path)
    OBVIOUS
  <2>1. 1 .. n = (1 .. walked) \cup {n}
    BY <1>2
  <2>2. FilesIn(path)' = {Trees[tree][i] : i \in {k \in 1 .. n :
            GoAt(k) /\ PathAt(k) = path /\ Trees[tree][k].fails # "parse"}}
    BY <1>1 DEF FilesIn, GoAt, PathAt
  <2>3. FilesIn(path) = {Trees[tree][i] : i \in {k \in 1 .. walked :
            GoAt(k) /\ PathAt(k) = path /\ Trees[tree][k].fails # "parse"}}
    BY DEF FilesIn, GoAt, PathAt
  <2>4. ~ GoAt(n)
    BY <1>1 DEF GoAt
  <2> QED
    BY <2>1, <2>2, <2>3, <2>4
<1>8. ASSUME Regular
      PROVE  /\ \A path \in PathsOf(tree) :
                   /\ Base(path) \in DOMAIN json'
                   /\ json'[Base(path)] # {}
                   => json'[Base(path)] = FilesIn(path)
             /\ phase' \in {"walk", "panicked"}
             /\ phase' = "walk" =>
                  \A path \in PathsOf(tree) : \A i \in 1 .. walked :
                      /\ GoAt(i) /\ PathAt(i) = path /\ Trees[tree][i].fails # "parse"
                      /\ Builds(FilesIn(path))
                      => Base(path) \in DOMAIN json'
  <2>1. CASE files # {}
    <3>1. BuildPackage("walk")
      BY <2>1 DEF WalkDir
    <3>2. phase' \in {"walk", "panicked"}
      BY <3>1, BuildPackageFacts
    <3> QED
      BY <1>1, <1>8, <2>1, <3>1, <3>2, PackageWritten
  <2>2. CASE files = {}
    <3>1. json' = json /\ phase' = "walk"
      BY <1>1, <2>2 DEF WalkDir
    <3>2. WholePackages /\ EveryPackage
      BY <1>8 DEF JsonInv
    <3>3. ASSUME NEW i \in 1 .. walked, GoAt(i), Trees[tree][i].fails # "parse"
          PROVE  DirBetween(i, walked)
      BY <1>1, <2>2, <3>3 DEF JsonInv, Walking, ParsedFiles, Since
    <3> QED
      BY <1>1, <3>1, <3>2, <3>3 DEF WholePackages, EveryPackage
  <2> QED
    BY <2>1, <2>2
<1>9. ASSUME Regular PROVE WholePackages'
  <2> SUFFICES ASSUME NEW path \in PathsOf(tree),
                      Base(path) \in DOMAIN json', json'[Base(path)] # {}
               PROVE  json'[Base(path)] = FilesIn(path)'
    BY <1>1, <1>3 DEF WholePackages, PathsOf, GoAt, PathAt, DirBetween
  <2> QED
    BY <1>7, <1>8, <1>9
<1>10. ASSUME Regular PROVE EveryPackage'
  <2> SUFFICES ASSUME phase' = "walk", NEW path \in PathsOf(tree), NEW i \in 1 .. n,
                      GoAt(i), PathAt(i) = path, Trees[tree][i].fails # "parse",
                      Builds(FilesIn(path)')
               PROVE  Base(path) \in DOMAIN json'
    BY <1>1, <1>8, <1>10 DEF EveryPackage, PathsOf, GoAt, PathAt, Builds, Fails
  <2>1. i \in 1 .. walked
    BY <1>1, <1>2 DEF GoAt
  <2> QED
    BY <1>7, <1>8, <1>10, <2>1
<1> QED
  BY <1>5, <1>6, <1>9, <1>10 DEF JsonInv

LEMMA JsonEndWalk == JsonInv /\ EndWalk => JsonInv'
<1> SUFFICES ASSUME JsonInv, EndWalk PROVE JsonInv'
  OBVIOUS
<1>1. tree' = tree /\ walked' = walked /\ phase = "walk"
  BY DEF EndWalk
<1>2. phase' \in {"walked", "panicked"}
  BY BuildPackageFacts DEF EndWalk
<1>3. Walking'
  BY <1>1, <1>2 DEF JsonInv, Walking
<1>4. Regular' <=> Regular
  BY <1>1 DEF Regular, NoFilesAfterSubdirectory, DistinctNames, PathsOf
<1>5. ASSUME Regular
      PROVE  /\ \A path \in PathsOf(tree) :
                   /\ Base(path) \in DOMAIN json'
                   /\ json'[Base(path)] # {}
                   => json'[Base(path)] = FilesIn(path)
             /\ phase' = "walked" =>
                  \A path \in PathsOf(tree) : \A i \in 1 .. walked :
                      /\ GoAt(i) /\ PathAt(i) = path /\ Trees[tree][i].fails # "parse"
                      /\ Builds(FilesIn(path))
                      => Base(path) \in DOMAIN json'
  <2>1. CASE files # {}
    BY <1>1, <1>5, <2>1, PackageWritten DEF EndWalk
  <2>2. CASE files = {}
    <3>1. json' = json
      BY <2>2 DEF EndWalk
    <3>2. WholePackages /\ EveryPackage
      BY <1>5 DEF JsonInv
    <3>3. ASSUME NEW i \in 1 .. walked, GoAt(i), Trees[tree][i].fails # "parse"
          PROVE  DirBetween(i, walked)
      BY <1>1, <2>2, <3>3 DEF JsonInv, Walking, ParsedFiles, Since
    <3> QED
      BY <1>1, <3>1, <3>2, <3>3 DEF WholePackages, EveryPackage
  <2> QED
    BY <2>1, <2>2
<1>6. \A path : FilesIn(path)' = FilesIn(path)
  BY <1>1 DEF FilesIn
<1>7. ASSUME Regular PROVE WholePackages'
  <2> SUFFICES ASSUME NEW path \in PathsOf(tree),
                      Base(path) \in DOMAIN json', json'[Base(path)] # {}
               PROVE  json'[Base(path)] = FilesIn(path)'
    BY <1>1, <1>2 DEF WholePackages, PathsOf
  <2> QED
    BY <1>5, <1>6, <1>7
<1>8. ASSUME Regular PROVE EveryPackage'
  <2> SUFFICES ASSUME phase' = "walked", NEW path \in PathsOf(tree), NEW i \in 1 .. walked,
                      GoAt(i), PathAt(i) = path, Trees[tree][i].fails # "parse",
                      Builds(FilesIn(path)')
               PROVE  Base(path) \in DOMAIN json'
    BY <1>1, <1>2 DEF EveryPackage, PathsOf, GoAt, PathAt, Builds, Fails
  <2> QED
    BY <1>5, <1>6, <1>8
<1> QED
  BY <1>3, <1>4, <1>7, <1>8 DEF JsonInv

LEMMA JsonAfterwards ==
    JsonInv /\ UNCHANGED <<tree, walked, json>> /\ phase' \notin {"walk", "walked"}
        => JsonInv'
<1> SUFFICES ASSUME JsonInv, UNCHANGED <<tree, walked, json>>,
                    phase' \notin {"walk", "walked"}
             PROVE  JsonInv'
  OBVIOUS
<1>1. Regular' <=> Regular
  BY DEF Regular, NoFilesAfterSubdirectory, DistinctNames, PathsOf
<1>2. Walking'
  BY DEF JsonInv, Walking
<1>3. EveryPackage'
  BY DEF EveryPackage
<1>4. ASSUME WholePackages PROVE WholePackages'
  BY <1>4 DEF WholePackages, PathsOf, FilesIn
<1> QED
  BY <1>1, <1>2, <1>3, <1>4 DEF JsonInv

LEMMA JsonNext == JsonInv /\ [Next]_vars => JsonInv'
<1> SUFFICES ASSUME JsonInv, [Next]_vars PROVE JsonInv'
  OBVIOUS
<1>1. CASE WalkFile
  BY <1>1, JsonWalkFile
<1>2. CASE WalkDir
  BY <1>2, JsonWalkDir
<1>3. CASE EndWalk
  BY <1>3, JsonEndWalk
<1>4. CASE ListFiles \/ ReadFile \/ Interpret \/ GenerateTests \/ GenerateTestsFails
           \/ Report
  <2>1. UNCHANGED <<tree, walked, json>>
    BY <1>4 DEF ListFiles, ReadFile, Interpret, GenerateTests, GenerateTestsFails,
                Report, goVars
  <2>2. phase' \notin {"walk", "walked"}
    BY <1>4 DEF ListFiles, ReadFile, Interpret, GenerateTests, GenerateTestsFails, Report
  <2> QED
    BY <2>1, <2>2, JsonAfterwards
<1>5. CASE UNCHANGED vars
  <2>1. UNCHANGED <<tree, phase, walked, files, localPath, json>>
    BY <1>5 DEF vars, goVars
  <2>2. Walking'
    BY <2>1 DEF JsonInv, Walking, Since, ParsedFiles, GoAt, PathAt, DirBetween,
                Regular, NoFilesAfterSubdirectory, DistinctNames, PathsOf
  <2>3. Regular' <=> Regular
    BY <2>1 DEF Regular, NoFilesAfterSubdirectory, DistinctNames, PathsOf
  <2>4. ASSUME WholePackages PROVE WholePackages'
    BY <2>1, <2>4 DEF WholePackages, PathsOf, FilesIn, GoAt, PathAt, DirBetween
  <2>5. ASSUME EveryPackage PROVE EveryPackage'
    BY <2>1, <2>5 DEF EveryPackage, PathsOf, FilesIn, GoAt, PathAt, DirBetween,
                      Builds, Fails
  <2> QED
    BY <2>2, <2>3, <2>4, <2>5 DEF JsonInv
<1> QED
  BY <1>1, <1>2, <1>3, <1>4, <1>5 DEF Next, Ended

(***************************************************************************)
(* For every tree in which no directory has files after a subdirectory and *)
(* no two directories have one name, a JSON file that is not empty is the  *)
(* whole package of one directory, whatever fails with the others, and     *)
(* after the walk no package is without its file.                          *)
(***************************************************************************)
THEOREM FilesArePackages == Spec => []JsonIsPackage
<1>1. ASSUME JsonInv PROVE JsonIsPackage
  <2> SUFFICES ASSUME Regular PROVE JsonIsPackage
    BY DEF Regular, JsonIsPackage
  <2>1. WholePackages /\ EveryPackage
    BY <1>1 DEF JsonInv
  <2>2. ASSUME phase = "walked", NEW path \in PathsOf(tree),
               FilesIn(path) # {}, Builds(FilesIn(path))
        PROVE  Base(path) \in DOMAIN json
    <3>1. PICK i \in 1 .. walked : /\ GoAt(i) /\ PathAt(i) = path
                                   /\ Trees[tree][i].fails # "parse"
      BY <2>2 DEF FilesIn, GoAt, PathAt
    <3> QED
      BY <2>1, <2>2, <3>1 DEF EveryPackage
  <2> QED
    BY <2>1, <2>2 DEF JsonIsPackage, WholePackages
<1> QED
  BY JsonInit, JsonNext, <1>1, PTL DEF Spec
==============================================================================
