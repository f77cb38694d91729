----------------------------- MODULE JsonReader -----------------------------
(***************************************************************************)
(* The JSON reader (json/reader.cc): the loop of Reader::parser over the   *)
(* tokens of a document, with its set of legal next tokens, its stack of   *)
(* open containers and its pending key.  A token is a kind of string of    *)
(* characters: "name" is a string that a colon follows, "string" one that  *)
(* anything else follows.  An element is its place: the keys and indices   *)
(* that lead to it.                                                        *)
(***************************************************************************)
EXTENDS Naturals, Sequences, SequencesExt

CONSTANTS Names,       \* keys, none of them empty
          None,
          MaxTokens,   \* bound on the length of a document
          Documents    \* what JsonGrammar has of that length

VARIABLES doc,      \* the tokens read
          legal,    \* m_nextLegalPunctuation
          stack,    \* m_stackVal, the top first
          key,      \* m_key
          tree,     \* the elements of the result: their places and types
          started,  \* m_val
          error,    \* m_isErorr
          result    \* what parser() has returned

vars == <<doc, legal, stack, key, tree, started, error, result>>

\* A literal is a number, null or true, which differ in their spelling.
Scalars == {"string", "literal"}

\* Numbers that scan() does not know begin with 5, those readNumber refuses have
\* a decimal point, and readFalse compares four letters with the five of false;
\* a carriage return is in scan's way as well.
Unknown == {"five", "return"}
Refused == {"decimal", "false", "misspelt", "unclosed"}
Tokens == [kind : {"name"}, name : Names]
          \cup [kind : {"object", "object_end", "array", "array_end", "separator", "colon", "noname"}
                         \cup Scalars \cup Unknown \cup Refused]

\* scan(): the TokenType that the first character announces.
Announces(token) ==
  CASE token.kind \in {"name", "noname", "unclosed"} -> "string"
    [] token.kind \in {"decimal", "false", "misspelt"} -> "literal"
    [] OTHER -> token.kind

AllTypes == {"object", "object_end", "array", "array_end", "separator", "colon", "eof"} \cup Scalars

-----------------------------------------------------------------------------

\* The element that is given to parser() is an object, and open.
Init ==
  /\ doc = <<>> /\ legal = {"object", "array"}
  /\ stack = <<[place |-> <<>>, type |-> "object", size |-> 0]>>
  /\ key = None
  /\ tree = {}
  /\ started = FALSE /\ error = FALSE /\ result = "none"

Top == Head(stack)

\* The string that has been read needs its colon: the lookahead of readString.
NeedsColon == doc # <<>> /\ Last(doc).kind \in {"name", "noname"}

\* The reader is in its loop, and the next token is of a kind that is legal.
Reads(token) ==
  /\ result = "none" /\ ~error /\ Len(doc) < MaxTokens
  /\ NeedsColon => token.kind = "colon"
  /\ doc' = Append(doc, token)
  /\ Announces(token) \in legal
  /\ UNCHANGED result

Illegal(token) ==
  /\ result = "none" /\ ~error /\ Len(doc) < MaxTokens
  /\ NeedsColon => token.kind = "colon"
  /\ doc' = Append(doc, token)
  /\ Announces(token) \notin legal
  /\ error' = TRUE
  /\ UNCHANGED <<legal, stack, key, tree, started, result>>

-----------------------------------------------------------------------------
(* The elements. *)

\* operator[] with a key that is there already overwrites what it names.
PutKeeping(place, type) == tree \cup {<<place, type>>}   \* mutant: nothing is overwritten
Put(place, type) == {e \in tree : ~IsPrefix(place, e[1])} \cup {<<place, type>>}

\* Where the next element of the top goes, and whether it may: one with a key
\* into an object, one without into an array.
Place == Append(Top.place, IF Top.type = "object" THEN key ELSE Top.size)
Takes == stack # <<>> /\ (Top.type = "object" <=> key # None)
Grown == [stack EXCEPT ![1].size = @ + 1]

\* addJsonElement.
AddJsonElement(type) ==
  IF Takes THEN /\ tree' = Put(Place, type) /\ stack' = Grown /\ key' = None
                /\ UNCHANGED error
           ELSE error' = TRUE /\ UNCHANGED <<tree, stack, key>>

\* addObject and addArray.  The first of them makes the root what it is.  An
\* array takes a container even if there is a key, which stays.
Begin(token) ==
  LET type == token.kind
      keyless == stack # <<>> /\ Top.type = "object" /\ key = None
  IN
  /\ Reads(token) /\ type \in {"object", "array"}
  /\ legal' = IF type = "object" THEN {"string"} ELSE AllTypes \ {"colon", "separator", "eof"}
  /\ started' = TRUE
  /\ \/ /\ ~started
        /\ stack' = [stack EXCEPT ![1].type = type]
        /\ tree' = {<<<<>>, type>>}
        /\ UNCHANGED <<key, error>>
     \/ /\ started /\ keyless
        /\ error' = TRUE
        /\ UNCHANGED <<stack, tree, key>>
     \/ /\ started /\ stack # <<>> /\ ~keyless
        /\ tree' = Put(Place, type)
        /\ stack' = <<[place |-> Place, type |-> type, size |-> 0]>> \o Grown
        /\ key' = IF Top.type = "object" THEN None ELSE key
        /\ UNCHANGED error

\* With nothing open, the pointer that addObject and addArray push was never
\* set, and the next use of the top is one of an arbitrary address.
BeginWild(token) ==
  /\ Reads(token) /\ token.kind \in {"object", "array"}
  /\ started /\ stack = <<>>
  /\ result' = "undefined"
  /\ UNCHANGED <<legal, stack, key, tree, started, error>>

\* delObject and delArray.
ClosesAny(type) == stack # <<>>   \* mutant: any bracket closes any container
Closes(type) == stack # <<>> /\ Top.type = (IF type = "object_end" THEN "object" ELSE "array")

End(token) ==
  /\ Reads(token) /\ token.kind \in {"object_end", "array_end"}
  /\ legal' = {"eof", "separator", "array_end", "object_end"}
  /\ IF Closes(token.kind) THEN stack' = Tail(stack) /\ UNCHANGED error
                           ELSE error' = TRUE /\ UNCHANGED stack
  /\ UNCHANGED <<key, tree, started>>

\* readString, when a colon follows: the key of an object, or so it seems.
ReadName(token) ==
  /\ Reads(token) /\ token.kind \in {"name", "noname"}
  /\ legal' = {"colon", "separator", "object_end", "array_end"}
  /\ IF key = None THEN UNCHANGED error ELSE error' = TRUE
  /\ key' = IF key = None /\ token.kind = "name" THEN token.name ELSE key
  /\ UNCHANGED <<stack, tree, started>>

\* readString otherwise, readNumber, readNull, readTrue and readFalse.
ReadScalar(token) ==
  /\ Reads(token) /\ token.kind \in Scalars
  /\ legal' = {"separator", "object_end", "array_end"}
               \cup IF token.kind = "string" THEN {"colon"} ELSE {}
  /\ AddJsonElement(token.kind)
  /\ UNCHANGED started

\* A decimal point is looked at twice; what readTrue and readFalse refuse is
\* added nevertheless, which nobody sees.
ReadRefused(token) ==
  /\ Reads(token) /\ token.kind \in Refused
  /\ error' = TRUE
  /\ UNCHANGED <<legal, stack, key, tree, started>>

Separator(token) ==
  /\ Reads(token) /\ token.kind \in {"separator", "colon"}
  /\ legal' = AllTypes \ ({"eof", "colon", "array_end", "object_end"}
                            \cup IF token.kind = "colon" THEN {"separator"} ELSE {})
  /\ UNCHANGED <<stack, key, tree, started, error>>

\* The end of the text, behind white space or not: only then is it a token.
\* readString has looked for what follows it, and found nothing.
EndOfText(white) ==
  /\ result = "none" /\ ~NeedsColon
  /\ result' = IF \/ error
                  \/ white /\ "eof" \notin legal
                  \/ doc # <<>> /\ Last(doc).kind = "string"
               THEN "false" ELSE "true"
  /\ UNCHANGED <<doc, legal, stack, key, tree, started, error>>

Next ==
  \/ \E token \in Tokens :
       \/ Illegal(token) \/ Begin(token) \/ BeginWild(token) \/ End(token)
       \/ ReadName(token) \/ ReadScalar(token) \/ ReadRefused(token) \/ Separator(token)
  \/ \E white \in BOOLEAN : EndOfText(white)

Spec == Init /\ [][Next]_vars

-----------------------------------------------------------------------------
(* Properties *)

\* Every variable has its type.
TypeOK ==
  /\ doc \in Seq(Tokens) /\ Len(doc) <= MaxTokens
  /\ legal \subseteq AllTypes
  /\ \A i \in DOMAIN stack : stack[i].type \in {"object", "array"} /\ stack[i].size \in Nat
  /\ key \in Names \cup {None}
  /\ started \in BOOLEAN /\ error \in BOOLEAN
  /\ result \in {"none", "true", "false", "undefined"}

\* The pointers on the stack stay good, though the vectors and maps they point
\* into grow and their elements are overwritten: each is that of an element of
\* the result, inside the one below it.
OpenAlive ==
  started /\ result # "undefined" =>
    /\ \A i \in DOMAIN stack : <<stack[i].place, stack[i].type>> \in tree
    /\ \A i \in 1 .. Len(stack) - 1 : Front(stack[i].place) = stack[i + 1].place

\* A JSON document, unless it has an empty object, false, a decimal point or a
\* number that begins with 5, is read to its end, and the result has its elements
\* at their places; the last of several members with one name counts.
ReadsJson ==
  \A v \in Documents :
    v.text = doc => ~error /\ stack = <<>> /\ tree = v.tree

\* What the reader builds is what the document says, while it is being built too.
ReadsDocuments == OpenAlive /\ ReadsJson
=============================================================================
