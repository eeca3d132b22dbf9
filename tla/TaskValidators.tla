--------------------------- MODULE TaskValidators ---------------------------
(***************************************************************************)
(* The validators of the twenty corpus tasks (tasks/corpus-20-v1), as what   *)
(* decides their verdict on a workspace: where the library they link and    *)
(* the interface they compile against (module files, a C header) come from.  *)
(* The Fortran or C program of a validator tells a library that is accepted  *)
(* from one that is not; which is which is left to TaskRow.                  *)
(*   "setup"   the one build tree the task's setup commands fill             *)
(*   "any"     the first match of a pattern over all trees under build/:     *)
(*             fpm names its trees after a hash of compiler and flags        *)
(*   "source"  the sources of the workspace                                  *)
(*   "own"     what the validator itself configures or builds, in a          *)
(*             temporary directory, from these sources                       *)
(***************************************************************************)

\* What a CMake build of the setup commands leaves at a fixed path; the compiler
\* is the one its CMakeCache.txt names.
CMakeTree == [library |-> "setup", interface |-> "setup"]

\* The first archive and the first module file, each of its own pattern: they
\* may belong to two trees.
FpmTrees == [library |-> "any", interface |-> "any"]

\* The first archive, and the header the sources bring along.
CApi == [library |-> "any", interface |-> "source"]

\* Nothing the setup commands built.
OwnBuild == [library |-> "own", interface |-> "own"]

bspline_41   == CMakeTree
csv_21       == CMakeTree
datetime_74  == CMakeTree
json_454     == CMakeTree
json_479     == CMakeTree
stdlib_543   == CMakeTree
stdlib_600   == CMakeTree
toml_55      == CMakeTree
dop853_10    == FpmTrees
quadpack_22  == FpmTrees
roots_26     == FpmTrees
roots_27     == FpmTrees
json_570     == FpmTrees
rklib_19     == FpmTrees
testdrive_42 == FpmTrees
toml_104     == FpmTrees
minpack_29   == CApi
json_504     == OwnBuild
minpack_42   == OwnBuild
testdrive_18 == OwnBuild

Validators ==
  {bspline_41, csv_21, datetime_74, json_454, json_479, stdlib_543, stdlib_600, toml_55,
   dop853_10, quadpack_22, roots_26, roots_27, json_570, rklib_19, testdrive_42, toml_104,
   minpack_29, json_504, minpack_42, testdrive_18}
=============================================================================
