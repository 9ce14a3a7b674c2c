----------------------------- MODULE MCExecutor -----------------------------
(***************************************************************************)
(* Small instances of Executor for TLC.                                    *)
(***************************************************************************)
EXTENDS ExecutorInvariant, TLC

CONSTANTS w1, w2

Sym == Permutations({w1, w2})

File(n) == [kind |-> "file", size |-> n]
Dir     == [kind |-> "dir", size |-> 0]
Unsafe  == [kind |-> "unsafe", size |-> 1]

Plain(compiles) == [multi |-> FALSE, compiles |-> compiles, archive |-> NoArchive,
                    script |-> FALSE, expects |-> TRUE]
Multi(a, compiles, script) == [multi |-> TRUE, compiles |-> compiles, archive |-> a,
                               script |-> script, expects |-> FALSE]

\* Archives of exactly the limit (2), one byte more, one entry too
\* many, and with a path that leaves the directory.
MCSubmissions ==
    {Plain(TRUE), [Plain(FALSE) EXCEPT !.archive = <<Dir, File(2)>>],
     Multi(<<File(1), File(1)>>, TRUE, TRUE), Multi(<<File(1), File(2)>>, FALSE, TRUE),
     Multi(<<File(1)>>, FALSE, FALSE),
     Multi(<<File(0), File(0), File(0)>>, FALSE, TRUE), Multi(<<Unsafe>>, FALSE, TRUE)}

\* A program that is compiled, and one with an archive.
MCFew == {Plain(TRUE), Multi(<<File(1)>>, FALSE, TRUE)}
=============================================================================
