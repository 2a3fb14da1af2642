--------------------------- MODULE MCSubstitution ---------------------------
(* Four values that may refer to each other and to themselves, chains of at  *)
(* most three references: room for the limit, and for a cycle below it.      *)
EXTENDS Substitution

Needs(ref) == [ref |-> ref, required |-> TRUE]
Likes(ref) == [ref |-> ref, required |-> FALSE]

AnyTemplate == {<<Needs("a")>>, <<Likes("b"), Needs("a")>>, <<Needs("f"), Needs("N")>>,
                <<Likes("N"), Likes("a"), Needs("b")>>}

MissingValue == [kind |-> "missing", text |-> <<>>]
Literal == [kind |-> "literal", text |-> <<>>]
String(text) == [kind |-> "string", text |-> text]

AnyValue ==
    {MissingValue, Literal}
    \cup {String(t) : t \in {<<>>, <<Needs("a")>>, <<Needs("b")>>, <<Needs("c")>>,
                             <<Likes("d")>>, <<Needs("N"), Needs("b")>>,
                             <<Needs("c"), Needs("d")>>, <<Needs("f"), Likes("b"), Needs("c")>>}}
=============================================================================
