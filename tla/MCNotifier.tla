----------------------------- MODULE MCNotifier -----------------------------
(***************************************************************************)
(* Small instances of Notifier.                                            *)
(***************************************************************************)
EXTENDS Notifier, TLC

\* The part 1.5 and chapter 2.
TwoNumbers == {3, 4}

CONSTANTS p1, p2

\* One provider lists both and another the chapter.
Overlapping == {<<p1, 3>>, <<p1, 4>>, <<p2, 4>>}

Single      == {<<p1, 4>>}

Symmetry == Permutations(Consumer) \union Permutations(Reader)
=============================================================================
