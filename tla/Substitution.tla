---------------------------- MODULE Substitution ----------------------------
(***************************************************************************)
(* Expansion of a command template (runner/src/substitution.rs).           *)
(*                                                                         *)
(* A template refers to flat tokens and to values of the scenario and the  *)
(* step, which may be strings with references of their own.  expand_in and *)
(* resolve call each other; their recursion is the stack below, with the   *)
(* values that are being expanded, outermost first.  A command is run only *)
(* if every required reference leads somewhere; a chain that comes back to *)
(* itself, or is too long, ends the expansion at once.                     *)
(*                                                                         *)
(* Of a text only its references are kept: what is between them is copied. *)
(***************************************************************************)
EXTENDS Naturals, Sequences

CONSTANTS
    Dotted,     \* {scenario.*} and {step.*}, and {tools.*} or {vm.*} unheard of
    Flat,       \* the tokens of the flat vocabulary
    Markers,    \* identifiers of the consumer's own, e.g. {N}
    Top,        \* in place of a reference: the template itself
    Templates,
    Values,     \* what a dotted reference may lead to
    MaxDepth

Kinds == {"missing", "literal", "string"}

\* What parse_placeholder takes for a reference.  The rest of the text stays as it
\* is and is never reported, which includes a path with a numeric segment.
Slots == [ref : Dotted \cup Flat \cup Markers, required : BOOLEAN]

ASSUME NamesAssumption ==
    /\ Top \notin Dotted
    /\ Dotted \cap (Flat \cup Markers) = {} /\ Flat \cap Markers = {}
ASSUME TextsAssumption ==
    /\ Templates \subseteq Seq(Slots)
    /\ Values \subseteq [kind : Kinds, text : Seq(Slots)]
ASSUME DepthAssumption == MaxDepth \in Nat

VARIABLES
    template,
    value,      \* what each dotted reference leads to
    stack,      \* the template and the values being expanded, each up to `at'
    missing,    \* required references that lead nowhere, as they were met
    out,        \* the references whose own text has been copied
    expanded,   \* history: the values expanded to their end
    status

vars == <<template, value, stack, missing, out, expanded, status>>

TypeOK ==
    /\ template \in Templates
    /\ value \in [Dotted -> Values]
    /\ stack \in Seq([ref : Dotted \cup {Top}, text : Seq(Slots), at : Nat])
    /\ missing \in Seq(Dotted \cup Markers)
    /\ out \in Seq(Dotted \cup Flat \cup Markers)
    /\ expanded \subseteq Dotted
    /\ status \in {"running", "ok", "unresolved", "cycle", "deep"}

Frame(ref, text) == [ref |-> ref, text |-> text, at |-> 1]

Init ==
    /\ template \in Templates
    /\ value \in [Dotted -> Values]
    /\ stack = <<Frame(Top, template)>>
    /\ missing = <<>>
    /\ out = <<>>
    /\ expanded = {}
    /\ status = "running"

Nested == Len(stack) > 1
Current == stack[Len(stack)]
Slot == Current.text[Current.at]
Ref == Slot.ref

\* There is a reference left in the text that is being expanded.
More == status = "running" /\ Current.at <= Len(Current.text)

Advance == stack' = [stack EXCEPT ![Len(stack)].at = @ + 1]

Leads(ref, kind) == ref \in Dotted /\ value[ref].kind = kind

\* Nothing has that name, or the path ends nowhere.
Unfound(ref) == ref \in Markers \/ Leads(ref, "missing")

-----------------------------------------------------------------------------
(* expand_in                                                               *)

\* A consumer's marker in a nested string is no reference.
Kept == Nested /\ Ref \in Markers

\* Flat tokens, explicit literals and data other than strings are copied as
\* they are, and so is a marker that is kept.
Copy ==
    /\ More
    /\ Kept \/ Ref \in Flat \/ Leads(Ref, "literal")
    /\ out' = Append(out, Ref)
    /\ Advance
    /\ UNCHANGED <<template, value, missing, expanded, status>>

\* Mutant: the position stays where it is.
SkipStays ==
    /\ More
    /\ Unfound(Ref) /\ ~Kept /\ ~Slot.required
    /\ UNCHANGED vars

\* An optional reference that leads nowhere is empty.
Skip ==
    /\ More
    /\ Unfound(Ref) /\ ~Kept /\ ~Slot.required
    /\ Advance
    /\ UNCHANGED <<template, value, missing, out, expanded, status>>

\* Mutant: only what the template itself names is reported.
MissAtTop ==
    /\ More
    /\ Unfound(Ref) /\ ~Kept /\ Slot.required
    /\ missing' = IF Nested THEN missing ELSE Append(missing, Ref)
    /\ Advance
    /\ UNCHANGED <<template, value, out, expanded, status>>

Reported(ref) == \E i \in 1..Len(missing) : missing[i] = ref

\* A required one is reported once, and the expansion goes on.
Miss ==
    /\ More
    /\ Unfound(Ref) /\ ~Kept /\ Slot.required
    /\ missing' = IF Reported(Ref) THEN missing ELSE Append(missing, Ref)
    /\ Advance
    /\ UNCHANGED <<template, value, out, expanded, status>>

-----------------------------------------------------------------------------
(* resolve, for a string                                                   *)

\* Mutant: only a value that refers to itself is noticed.
InChainLast(ref) == Current.ref = ref

InChain(ref) == \E k \in 2..Len(stack) : stack[k].ref = ref

\* Mutant: the limit is off by one.
TooDeepLate == Len(stack) > MaxDepth + 1

\* The chain is all of the stack but the template.
TooDeep == Len(stack) > MaxDepth

Stop(reason) ==
    /\ status' = reason
    /\ UNCHANGED <<template, value, stack, missing, out, expanded>>

Cycle == More /\ Leads(Ref, "string") /\ InChain(Ref) /\ Stop("cycle")

Deep == More /\ Leads(Ref, "string") /\ ~InChain(Ref) /\ TooDeep /\ Stop("deep")

Enter ==
    /\ More
    /\ Leads(Ref, "string") /\ ~InChain(Ref) /\ ~TooDeep
    /\ stack' = Append(stack, Frame(Ref, value[Ref].text))
    /\ UNCHANGED <<template, value, missing, out, expanded, status>>

\* The value is expanded: it goes from the chain, and its reader goes on.
Leave ==
    /\ status = "running" /\ Nested
    /\ Current.at > Len(Current.text)
    /\ stack' = [k \in 1..(Len(stack) - 1) |->
                    IF k = Len(stack) - 1 THEN [stack[k] EXCEPT !.at = @ + 1]
                    ELSE stack[k]]
    /\ expanded' = expanded \cup {Current.ref}
    /\ UNCHANGED <<template, value, missing, out, status>>

\* expand_checked returns the text, or all that is missing.
Finish ==
    /\ status = "running" /\ ~Nested
    /\ Current.at > Len(Current.text)
    /\ status' = IF missing = <<>> THEN "ok" ELSE "unresolved"
    /\ UNCHANGED <<template, value, stack, missing, out, expanded>>

Next == Copy \/ Skip \/ Miss \/ Cycle \/ Deep \/ Enter \/ Leave \/ Finish

Spec == Init /\ [][Next]_vars

\* The function runs on.
FairSpec == Spec /\ WF_vars(Next)

-----------------------------------------------------------------------------
(* Correctness.                                                            *)

SlotsOf(text) == {text[i] : i \in 1..Len(text)}
Strings(text) == {s.ref : s \in {t \in SlotsOf(text) : Leads(t.ref, "string")}}

\* What makes the template, or a value, fail by itself.
BadInTemplate == {s.ref : s \in {t \in SlotsOf(template) : t.required /\ Unfound(t.ref)}}
BadIn(ref) == {s.ref : s \in {t \in SlotsOf(value[ref].text) :
                                 t.required /\ Leads(t.ref, "missing")}}

Ended == status # "running"

\* A command is built only if every required reference in it leads somewhere, at
\* any depth, and the error names exactly those that do not: what was expanded
\* is closed under references, and nothing in it is missing but what is told.
Honest ==
    status \in {"ok", "unresolved"} =>
        /\ Strings(template) \subseteq expanded
        /\ \A p \in expanded : Strings(value[p].text) \subseteq expanded
        /\ {missing[i] : i \in 1..Len(missing)}
              = BadInTemplate \cup UNION {BadIn(p) : p \in expanded}
        /\ status = "ok" <=> missing = <<>>

\* The error of a chain is true: each value on it is named by the one before, no
\* two are the same, and the reference that ends it is one of them or one more
\* than the limit.
ChainTrue ==
    /\ \A k \in 2..Len(stack) :
          /\ stack[k].ref \in Dotted /\ value[stack[k].ref].kind = "string"
          /\ stack[k].text = value[stack[k].ref].text
          /\ stack[k - 1].at <= Len(stack[k - 1].text)
          /\ stack[k - 1].text[stack[k - 1].at].ref = stack[k].ref
    /\ \A k, m \in 2..Len(stack) : stack[k].ref = stack[m].ref => k = m
    /\ Len(stack) <= MaxDepth + 1
    /\ status \in {"cycle", "deep"} =>
          /\ Current.at <= Len(Current.text) /\ Leads(Ref, "string")
          /\ status = "cycle" => InChain(Ref)
          /\ status = "deep" => ~InChain(Ref) /\ Len(stack) = MaxDepth + 1

-----------------------------------------------------------------------------
(* The definition: the chains there are, and the substitution of all       *)
(* references at once, a recursion over how deep they lie.                 *)

\* The chains of n references that start in a text, each leading to a string
\* that has the next.
ChainsFrom(text, n) ==
    {c \in [1..n -> Dotted] :
        \A i \in 1..n : c[i] \in Strings(IF i = 1 THEN text ELSE value[c[i - 1]].text)}

Chains(n) == ChainsFrom(template, n)

\* The first i of the pieces, one after the other.
Joined(pieces) ==
    LET J[i \in Nat] == IF i \in 1..Len(pieces) THEN J[i - 1] \o pieces[i] ELSE <<>>
    IN  J

\* What a reference becomes, MaxDepth - n levels down, its string being expanded
\* by inner.
Piece(val, n, inner, slot) ==
    IF slot.ref \in Dotted
    THEN CASE val[slot.ref].kind = "missing" -> <<>>
           [] val[slot.ref].kind = "literal" -> <<slot.ref>>
           [] val[slot.ref].kind = "string" -> inner[val[slot.ref].text]
    ELSE IF slot.ref \in Markers /\ n = MaxDepth THEN <<>>
    ELSE <<slot.ref>>

Pieces(val, n, inner, text) == [i \in 1..Len(text) |-> Piece(val, n, inner, text[i])]

Level(val, n, inner) ==
    [text \in Seq(Slots) |-> Joined(Pieces(val, n, inner, text))[Len(text)]]

NoText == [text \in Seq(Slots) |-> <<>>]

\* What texts become whose strings are at most n levels deep.
Expansion(val) ==
    LET Text[n \in Nat] == Level(val, n, IF n = 0 THEN NoText ELSE Text[n - 1])
    IN  Text

\* docs/vocabulary.md:47-56 as a definition: the expansion fails for its chains
\* exactly if one is longer than the limit, as every one that comes back to
\* itself is; else what is missing decides; else its text is the substitution
\* of all references at once.
ExpandsAsDefined ==
    /\ Ended => (status \in {"cycle", "deep"} <=> Chains(MaxDepth + 1) # {})
    /\ status \in {"ok", "unresolved"} =>
          /\ expanded = UNION {{c[n] : c \in Chains(n)} : n \in 1..MaxDepth}
          /\ out = Expansion(value)[MaxDepth][template]

\* Whatever refers to whatever, the expansion ends.
Ends == <>Ended

-----------------------------------------------------------------------------
(* The inductive invariant of SubstitutionProofs.                          *)

\* A reference that has been read is dealt with: expanded, copied or told.
Settled(slot, nested) ==
    /\ Leads(slot.ref, "string") => slot.ref \in expanded
    /\ slot.required /\ Leads(slot.ref, "missing") => Reported(slot.ref)
    /\ slot.required /\ slot.ref \in Markers /\ ~nested => Reported(slot.ref)

StackSettled ==
    /\ Len(stack) >= 1
    /\ stack[1].ref = Top /\ stack[1].text = template
    /\ \A k \in 1..Len(stack) :
          /\ stack[k].at \in 1..(Len(stack[k].text) + 1)
          /\ \A i \in 1..(stack[k].at - 1) : Settled(stack[k].text[i], k > 1)

ExpandedSettled ==
    \A p \in expanded :
        /\ value[p].kind = "string"
        /\ \A i \in 1..Len(value[p].text) : Settled(value[p].text[i], TRUE)

\* What is told is true: some text that has been read requires it.
Required(ref) ==
    \/ ref \in BadInTemplate
    \/ \E p \in expanded : ref \in BadIn(p)
    \/ \E k \in 2..Len(stack) : ref \in BadIn(stack[k].ref)

MissingTrue == \A i \in 1..Len(missing) : Required(missing[i])

Decided ==
    status \in {"ok", "unresolved"} =>
        /\ Len(stack) = 1 /\ stack[1].at = Len(template) + 1
        /\ status = "ok" <=> missing = <<>>

IInv ==
    /\ TypeOK
    /\ StackSettled
    /\ ChainTrue
    /\ ExpandedSettled
    /\ MissingTrue
    /\ Decided

\* What has been read leads nowhere too deep.
Shallow(slot, k) ==
    Leads(slot.ref, "string") => ChainsFrom(value[slot.ref].text, MaxDepth + 1 - k) = {}

WithinLimit ==
    \A k \in 1..Len(stack) : \A i \in 1..(stack[k].at - 1) : Shallow(stack[k].text[i], k)

\* Only what chains lead to is expanded.
Reached == \A p \in expanded : \E n \in 1..MaxDepth : \E c \in Chains(n) : c[n] = p

\* What is copied is what the definition makes of the texts on the stack, each up
\* to the reference it is at.
Inner(val, n) == IF n = 0 THEN NoText ELSE Expansion(val)[n - 1]
SoFar(val, k, frame) ==
    Joined(Pieces(val, MaxDepth + 1 - k, Inner(val, MaxDepth + 1 - k), frame.text))[frame.at - 1]
Copied == out = Joined([k \in 1..Len(stack) |-> SoFar(value, k, stack[k])])[Len(stack)]

DefinedInv ==
    /\ IInv
    /\ WithinLimit /\ Reached /\ Copied
=============================================================================
