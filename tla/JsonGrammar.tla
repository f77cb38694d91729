---------------------------- MODULE JsonGrammar ----------------------------
(***************************************************************************)
(* JSON over kinds of tokens, without empty objects: each value with its   *)
(* text and its elements, an element being its place and its type.  A      *)
(* member with the name of an earlier one takes its place.                 *)
(***************************************************************************)
EXTENDS Naturals, Sequences

CONSTANTS Names, Scalars, MaxTokens

Token(kind) == [kind |-> kind]
Named(name) == [kind |-> "name", name |-> name]

\* The elements of a value that is found under a key or an index.
Under(k, elements) == {<<<<k>> \o e[1], e[2]>> : e \in elements}
Elsewhere(k, elements) == {e \in elements : Head(e[1]) # k}

Scalar == {[text |-> <<Token(s)>>, tree |-> {<<<<>>, s>>}] : s \in Scalars}

Wrap(begin, inner, end) ==
  [text |-> <<Token(begin)>> \o inner.text \o <<Token(end)>>,
   tree |-> {<<<<>>, begin>>} \cup inner.tree]

Item(list, v) ==
  [text |-> list.text \o (IF list.size = 0 THEN <<>> ELSE <<Token("separator")>>) \o v.text,
   tree |-> list.tree \cup Under(list.size, v.tree),
   size |-> list.size + 1]

Member(list, name, v) ==
  [text |-> list.text \o (IF list.size = 0 THEN <<>> ELSE <<Token("separator")>>)
              \o <<Named(name), Token("colon")>> \o v.text,
   tree |-> Elsewhere(name, list.tree) \cup Under(name, v.tree),
   size |-> list.size + 1]

Nothing == [text |-> <<>>, tree |-> {}, size |-> 0]

\* The values, and the insides of arrays and of objects, of n tokens; shorter[m]
\* are those of m - 1.
Phrases(n, shorter) ==
  LET Of(m) == shorter[m + 1]
      values == {Wrap("array", l, "array_end") : l \in Of(n - 2).items}
                  \cup {Wrap("object", l, "object_end") : l \in Of(n - 2).members}
      After(k) == IF k < n THEN Of(n - k).values ELSE {}
  IN  [values |-> values,
       items |-> {Item(Nothing, v) : v \in values}
                 \cup UNION {{Item(l, v) : l \in Of(i).items, v \in After(i + 1)} : i \in 1 .. n - 1},
       members |-> {Member(Nothing, a, v) : a \in Names, v \in After(2)}
                 \cup UNION {{Member(l, a, v) : l \in Of(i).members, a \in Names, v \in After(i + 3)} : i \in 1 .. n - 1}]

Shortest == << [values |-> {}, items |-> {Nothing}, members |-> {}],
               [values |-> Scalar, items |-> {Item(Nothing, v) : v \in Scalar}, members |-> {}] >>

UpTo[n \in 1 .. MaxTokens] ==
  IF n = 1 THEN Shortest
  ELSE LET shorter == UpTo[n - 1] IN Append(shorter, Phrases(n, shorter))

\* A document is an array or an object.
JsonDocuments == UNION {UpTo[MaxTokens][n + 1].values : n \in 2 .. MaxTokens}
=============================================================================
