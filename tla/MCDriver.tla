------------------------------- MODULE MCDriver -------------------------------
(* Small trees of directories for the model checker. *)
EXTENDS Driver

Flow == <<"samples", "flow">>
Arrays == <<"samples", "arrays">>
Sorted == <<"samples", "arrays", "flow">>

File(path, functions) == GoFile(path, Last(path), functions, {}, "no")
Failing(path, functions, fails) == GoFile(path, Last(path), functions, {}, fails)

MCTrees == [
    \* Two directories, one of them with two files; one function has no parameters.
    packages |-> <<Dir, Dir, GoFile(Arrays, "arrays", {"f", "g"}, {"g"}, "no"),
                   Dir, File(Flow, {"f"}), File(Flow, {"h"})>>,
    \* A file after a subdirectory, of the same package and of another one.
    merged |-> <<Dir, File(Arrays, {"f"}), Dir, GoFile(Sorted, "arrays", {"g"}, {}, "no"),
                 File(Arrays, {"h"})>>,
    mixed |-> <<Dir, Dir, File(Sorted, {"g"}), File(Arrays, {"h"})>>,
    \* Two directories with one name, and one that cannot be read.
    sameName |-> <<Dir, Dir, Dir, File(Sorted, {"f", "g"}), Dir, File(Flow, {"h"})>>,
    unreadable |-> <<Dir, File(Arrays, {"f"}), Unreadable, File(Flow, {"g"})>>,
    \* A file that is no Go, a package with an error, a function twice.
    noGo |-> <<Dir, Failing(Arrays, {}, "parse"), Dir, File(Flow, {"f", "g"}),
               Failing(Flow, {}, "parse")>>,
    noPackage |-> <<Dir, Failing(Arrays, {"f"}, "build"), Dir, File(Flow, {"g"})>>,
    twice |-> <<Dir, File(Arrays, {"f"}), GoFile(Arrays, "arrays", {"f", "g"}, {}, "no"),
                Dir, File(Flow, {"h"})>>,
    \* What ends one of the programs.
    encoder |-> <<Dir, File(Arrays, {"f", "g", "h"}), Dir, Failing(Flow, {"f"}, "encode")>>,
    decoder |-> <<Dir, File(Arrays, {"f", "g"}), Dir, Failing(Flow, {"f"}, "decode")>>,
    printer |-> <<Dir, File(Arrays, {"f", "g"}), Dir, Failing(Flow, {"f", "g"}, "tests")>>]
==============================================================================
