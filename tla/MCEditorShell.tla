----------------------------- MODULE MCEditorShell -----------------------------
(***************************************************************************)
(* Instances of EditorShell: posts a and b, texts that keep their slug.    *)
(***************************************************************************)
EXTENDS EditorShell, TLC

CONSTANTS a, b

\* Calls are interchangeable.
Symmetry == Permutations(Calls)

\* A revision of a does not parse.
MCBroken == {[post |-> a, rev |-> 2]}
NothingBroken == {}

FirstRevisions == [p \in Posts |-> [post |-> p, rev |-> 1]]

\* A post keeps its slug when it is edited.
BySlug(text) == text.post
=============================================================================
