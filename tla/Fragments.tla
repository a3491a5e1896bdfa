----------------------------- MODULE Fragments -----------------------------
(***************************************************************************)
(* How a model of models/ writes a binding: a statement is a list of       *)
(* pieces, and a piece is a choice of fragments, each with a gate.  The    *)
(* pieces that are the same on every server are left out, so what is left  *)
(* of a binding is what a version or a product decides.  So is a column    *)
(* that no release has a source for, whose field is absent everywhere.     *)
(*                                                                         *)
(* Of the text of a fragment three things are kept: whether it pads the    *)
(* column with NULL, the relations it reads that only some servers have in *)
(* their FROM, and those that it puts there.                               *)
(***************************************************************************)
EXTENDS Naturals

\* V of version.go, as one number.
V(major, minor, patch) == major * 10000 + minor * 100 + patch

---------------------------------------------------------------------------
(* Texts. *)

\* The relations that every server has in the FROM of a statement.
Everywhere == "everywhere"

Text(pads, reads, joins) == [pads |-> pads, reads |-> reads, joins |-> joins]

\* The empty string, and text that reads what every server has.
Empty  == Text(FALSE, {}, {})
Source == Text(FALSE, {Everywhere}, {})

\* NULL under the name of the column.
Padding == Text(TRUE, {}, {})

Reads(relation) == Text(FALSE, {relation}, {})
ReadsBoth(r, s) == Text(FALSE, {r, s}, {})
Joins(relation) == Text(FALSE, {}, {relation})

---------------------------------------------------------------------------
(* Fragments: for every server, from a release on, and for one product. *)

On(key, min, text) == [key |-> key, min |-> min, query |-> text]
Since(min, text)   == On("", min, text)
Base(text)         == Since(0, text)

---------------------------------------------------------------------------
(* The gates of a field: those under which it has a source. *)

Gate(key, min) == [key |-> key, min |-> min]
From(min)      == {Gate("", min)}
Always         == From(0)

---------------------------------------------------------------------------
(* Pieces.  Columns that share their gates and their alternatives are one. *)

Columns(names, gates, texts) == [names |-> names, gates |-> gates, choice |-> texts]
Column(name, gates, texts)   == Columns({name}, gates, texts)
Clause(texts)                == Columns({}, Always, texts)

\* A column and every other piece of a statement that is all for newer releases.
Floor(min)        == Clause(<<Since(min, Source)>>)
Row(names, min)   == Columns(names, From(min), <<Since(min, Source)>>)

\* A column padded below a release, with its field gated alike.
PaddedBelow(name, min, text) == Column(name, From(min), <<Base(Padding), Since(min, text)>>)

\* A column that has a source on every release, another one from min on.
Changed(name, min, text) == Column(name, Always, <<Base(Source), Since(min, text)>>)

JoinedFrom(min, relation) == Clause(<<Base(Empty), Since(min, Joins(relation))>>)

Binding(query, stmt) == [query |-> query, stmt |-> stmt]

=============================================================================
