------------------------- MODULE SubstitutionProofs -------------------------
(***************************************************************************)
(* Proofs about Substitution, for any template, any values and any limit.  *)
(*                                                                         *)
(* First the stack: IInv, and what it says of an expansion that is over.   *)
(* Then the definition the expansion is compared with, whose recursions    *)
(* are given by induction on the natural numbers; then the invariant that  *)
(* relates a stack half-way to that definition, DefinedInv.                *)
(***************************************************************************)
EXTENDS Substitution, WellFoundedInduction, TLAPS

USE NamesAssumption, TextsAssumption, DepthAssumption

Frames == [ref : Dotted \cup {Top}, text : Seq(Slots), at : Nat]

-----------------------------------------------------------------------------
(* What the operations on the stack do.                                    *)

\* The reference that is read, where there is one.
LEMMA ReadSlot ==
  ASSUME TypeOK, Len(stack) >= 1, More
  PROVE  /\ Len(stack) \in Nat /\ Current = stack[Len(stack)] /\ Current \in Frames
         /\ Current.at \in Nat /\ Current.text \in Seq(Slots)
         /\ Current.at >= 1 => Slot \in Slots /\ Slot = Current.text[Current.at]
         /\ status = "running"
<1>4. stack \in Seq(Frames) /\ Len(stack) \in Nat
  BY DEF TypeOK, Frames
<1>5. Len(stack) \in 1..Len(stack)
  BY <1>4
<1>1. Current \in Frames
  BY <1>4, <1>5 DEF Current
<1>2. Current.at \in Nat /\ Current.text \in Seq(Slots)
  BY <1>1 DEF Frames
<1>3. Len(stack) \in Nat
  BY DEF TypeOK
<1> QED
  BY <1>1, <1>2, <1>3 DEF More, Slot, Current

LEMMA Onward ==
  ASSUME NEW f \in Frames
  PROVE  /\ [f EXCEPT !.at = @ + 1] \in Frames
         /\ [f EXCEPT !.at = @ + 1].ref = f.ref
         /\ [f EXCEPT !.at = @ + 1].text = f.text
         /\ [f EXCEPT !.at = @ + 1].at = f.at + 1
  BY DEF Frames

\* The innermost text is read on, nothing else changes.
LEMMA Advanced ==
  ASSUME TypeOK, Len(stack) >= 1, Advance
  PROVE  /\ Len(stack) \in Nat
         /\ stack' \in Seq(Frames) /\ Len(stack') = Len(stack)
         /\ \A k \in 1..Len(stack) : /\ stack'[k].ref = stack[k].ref
                                     /\ stack'[k].text = stack[k].text
         /\ \A k \in 1..(Len(stack) - 1) : stack'[k].at = stack[k].at
         /\ stack'[Len(stack)].at = stack[Len(stack)].at + 1
<1>1. /\ stack \in Seq(Frames) /\ Len(stack) \in Nat
      /\ DOMAIN stack = 1..Len(stack) /\ Len(stack) \in 1..Len(stack)
  <2>1. stack \in Seq(Frames) /\ Len(stack) \in Nat
    BY DEF TypeOK, Frames
  <2> QED
    BY <2>1
<1>2. \A k \in 1..Len(stack) : stack[k] \in Frames
  BY <1>1
<1>3. [stack[Len(stack)] EXCEPT !.at = @ + 1] \in Frames
  BY <1>1, <1>2, Onward
<1>4. stack' = [stack EXCEPT ![Len(stack)] = [stack[Len(stack)] EXCEPT !.at = @ + 1]]
  BY DEF Advance
<1>5. stack' \in Seq(Frames) /\ Len(stack') = Len(stack)
  BY <1>1, <1>3, <1>4
<1>6. /\ \A k \in 1..(Len(stack) - 1) : stack'[k] = stack[k]
      /\ stack'[Len(stack)] = [stack[Len(stack)] EXCEPT !.at = @ + 1]
  BY <1>1, <1>4
<1>7. /\ stack'[Len(stack)].at = stack[Len(stack)].at + 1
      /\ stack'[Len(stack)].ref = stack[Len(stack)].ref
      /\ stack'[Len(stack)].text = stack[Len(stack)].text
  BY <1>1, <1>2, <1>6, Onward
<1>9. Len(stack) \in Nat
  BY <1>1
<1>8. \A k \in 1..Len(stack) : k = Len(stack) \/ k \in 1..(Len(stack) - 1)
  BY <1>9
<1> QED
  BY <1>9, <1>5, <1>6, <1>7, <1>8

\* A string is entered.
LEMMA Entered ==
  ASSUME TypeOK, Len(stack) >= 1, Enter
  PROVE  /\ stack' \in Seq(Frames) /\ Len(stack') = Len(stack) + 1
         /\ \A k \in 1..Len(stack) : stack'[k] = stack[k]
         /\ stack'[Len(stack) + 1] = Frame(Ref, value[Ref].text)
         /\ Ref \in Dotted
<1>1. Ref \in Dotted /\ stack' = Append(stack, Frame(Ref, value[Ref].text))
  BY DEF Enter, Leads
<1>2. Frame(Ref, value[Ref].text) \in Frames
  BY <1>1 DEF TypeOK, Frame, Frames
<1>3. stack \in Seq(Frames)
  BY DEF TypeOK, Frames
<1> QED
  BY <1>1, <1>2, <1>3

\* A string is left, and its reader goes on.
LEMMA Left ==
  ASSUME TypeOK, Leave
  PROVE  /\ Len(stack) \in Nat /\ Len(stack) > 1
         /\ stack' \in Seq(Frames) /\ Len(stack') = Len(stack) - 1
         /\ \A k \in 1..(Len(stack) - 1) : /\ stack'[k].ref = stack[k].ref
                                           /\ stack'[k].text = stack[k].text
         /\ \A k \in 1..(Len(stack) - 2) : stack'[k].at = stack[k].at
         /\ stack'[Len(stack) - 1].at = stack[Len(stack) - 1].at + 1
<1>1. stack \in Seq(Frames) /\ Len(stack) \in Nat /\ Len(stack) > 1
  BY DEF TypeOK, Frames, Leave, Nested
<1>2. \A k \in 1..(Len(stack) - 1) : stack[k] \in Frames
  BY <1>1
<1>3. \A k \in 1..(Len(stack) - 1) : [stack[k] EXCEPT !.at = @ + 1] \in Frames
  BY <1>2, Onward
<1>4. /\ DOMAIN stack' = 1..(Len(stack) - 1)
      /\ \A k \in 1..(Len(stack) - 1) :
            stack'[k] = IF k = Len(stack) - 1 THEN [stack[k] EXCEPT !.at = @ + 1]
                        ELSE stack[k]
  BY DEF Leave
<1>5. stack' = [k \in 1..(Len(stack) - 1) |-> stack'[k]]
  BY <1>4 DEF Leave
<1>6. \A k \in 1..(Len(stack) - 1) : stack'[k] \in Frames
  BY <1>2, <1>3, <1>4
<1>7. Len(stack) - 1 \in Nat /\ Len(stack) - 1 \in 1..(Len(stack) - 1)
  BY <1>1
<1>8. stack' \in Seq(Frames) /\ Len(stack') = Len(stack) - 1
  BY <1>5, <1>6, <1>7
<1>9. \A k \in 1..(Len(stack) - 1) :
         /\ [stack[k] EXCEPT !.at = @ + 1].ref = stack[k].ref
         /\ [stack[k] EXCEPT !.at = @ + 1].text = stack[k].text
         /\ [stack[k] EXCEPT !.at = @ + 1].at = stack[k].at + 1
  BY <1>2, Onward
<1>10. \A k \in 1..(Len(stack) - 2) : k \in 1..(Len(stack) - 1) /\ k # Len(stack) - 1
  BY <1>1
<1> QED
  BY <1>1, <1>4, <1>7, <1>8, <1>9, <1>10

-----------------------------------------------------------------------------
(* The invariant.                                                          *)

LEMMA StepTypeOK == TypeOK /\ StackSettled /\ ChainTrue /\ [Next]_vars => TypeOK'
<1> SUFFICES ASSUME TypeOK, StackSettled, ChainTrue, [Next]_vars PROVE TypeOK'
  OBVIOUS
<1>1. /\ stack \in Seq(Frames) /\ Len(stack) \in 1..Len(stack)
      /\ Len(stack) \in Nat /\ Len(stack) >= 1
  BY DEF TypeOK, Frames, StackSettled
<1>2. More => Ref \in Dotted \cup Flat \cup Markers
  BY <1>1, ReadSlot DEF StackSettled, Current, Ref, Slots
<1>3. CASE Copy
  <2>1. out' \in Seq(Dotted \cup Flat \cup Markers)
    BY <1>2, <1>3 DEF Copy, TypeOK
  <2> QED
    BY <1>1, <1>3, <2>1, Advanced DEF Copy, TypeOK, Frames
<1>4. CASE Skip
  BY <1>1, <1>4, Advanced DEF Skip, TypeOK, Frames
<1>5. CASE Miss
  <2>1. Ref \in Dotted \cup Markers
    BY <1>5 DEF Miss, Unfound, Leads
  <2>2. missing' \in Seq(Dotted \cup Markers)
    BY <1>5, <2>1 DEF Miss, TypeOK
  <2> QED
    BY <1>1, <1>5, <2>2, Advanced DEF Miss, TypeOK, Frames
<1>6. CASE Cycle
  BY <1>6 DEF Cycle, Stop, TypeOK
<1>7. CASE Deep
  BY <1>7 DEF Deep, Stop, TypeOK
<1>8. CASE Enter
  BY <1>1, <1>8, Entered DEF Enter, TypeOK, Frames
<1>9. CASE Leave
  <2>1. Current.ref \in Dotted
    BY <1>1, <1>9 DEF Leave, Nested, Current, ChainTrue
  <2> QED
    BY <1>9, <2>1, Left DEF Leave, TypeOK, Frames
<1>10. CASE Finish
  BY <1>10 DEF Finish, TypeOK
<1>11. CASE UNCHANGED vars
  BY <1>11 DEF vars, TypeOK
<1> QED
  BY <1>3, <1>4, <1>5, <1>6, <1>7, <1>8, <1>9, <1>10, <1>11 DEF Next

\* A slot that is settled stays settled.
LEMMA SettledKept ==
  ASSUME NEW slot, NEW nested, Settled(slot, nested), TypeOK,
         value' = value, expanded \subseteq expanded',
         \/ missing' = missing
         \/ \E r \in Dotted \cup Markers : missing' = Append(missing, r)
  PROVE  Settled(slot, nested)'
<1>1. \A i \in 1..Len(missing) : i \in 1..Len(missing') /\ missing'[i] = missing[i]
  BY DEF TypeOK
<1> QED
  BY <1>1 DEF Settled, Leads, Reported

\* What is required stays required while texts are only added, or expanded.
LEMMA RequiredKept ==
  ASSUME value' = value, template' = template, expanded \subseteq expanded',
         \A k \in 2..Len(stack) :
            \/ k \in 2..Len(stack') /\ stack'[k].ref = stack[k].ref
            \/ stack[k].ref \in expanded',
         NEW r, Required(r)
  PROVE  Required(r)'
<1>1. BadInTemplate' = BadInTemplate /\ \A p : BadIn(p)' = BadIn(p)
  BY DEF BadInTemplate, BadIn, SlotsOf, Unfound, Leads
<1>2. CASE r \in BadInTemplate
  BY <1>1, <1>2 DEF Required
<1>3. ASSUME NEW p \in expanded, r \in BadIn(p) PROVE Required(r)'
  BY <1>1, <1>3 DEF Required
<1>4. ASSUME NEW k \in 2..Len(stack), r \in BadIn(stack[k].ref) PROVE Required(r)'
  <2>1. CASE stack[k].ref \in expanded'
    BY <1>1, <1>4, <2>1 DEF Required
  <2>2. CASE k \in 2..Len(stack') /\ stack'[k].ref = stack[k].ref
    BY <1>1, <1>4, <2>2 DEF Required
  <2> QED
    BY <2>1, <2>2
<1> QED
  BY <1>2, <1>3, <1>4 DEF Required

\* A text is read on: the invariant is kept if the reference it was at is
\* dealt with.
LEMMA AdvanceKeeps ==
  ASSUME IInv, More, Advance, TypeOK',
         value' = value, template' = template, expanded' = expanded, status' = status,
         \/ missing' = missing
         \/ \E r \in Dotted \cup Markers : missing' = Append(missing, r) /\ Required(r),
         Leads(Slot.ref, "string") => Slot.ref \in expanded,
         Slot.required /\ (Leads(Slot.ref, "missing") \/ (Slot.ref \in Markers /\ ~Nested))
            => \E i \in 1..Len(missing') : missing'[i] = Slot.ref
  PROVE  IInv'
<1>1. /\ Len(stack) \in Nat /\ Len(stack) >= 1 /\ TypeOK
      /\ status = "running" /\ Current = stack[Len(stack)]
  BY ReadSlot DEF IInv, StackSettled
<1>2. /\ Len(stack') = Len(stack)
      /\ \A k \in 1..Len(stack) : /\ stack'[k].ref = stack[k].ref
                                  /\ stack'[k].text = stack[k].text
      /\ \A k \in 1..(Len(stack) - 1) : stack'[k].at = stack[k].at
      /\ stack'[Len(stack)].at = stack[Len(stack)].at + 1
  BY <1>1, Advanced
<1>3. \A slot, nested : Settled(slot, nested) => Settled(slot, nested)'
  BY <1>1, SettledKept
<1>5. StackSettled'
  <2>1. /\ Len(stack') >= 1 /\ stack'[1].ref = Top /\ stack'[1].text = template'
    BY <1>1, <1>2 DEF IInv, StackSettled
  <2>2. ASSUME NEW k \in 1..Len(stack)
        PROVE  stack'[k].at \in 1..(Len(stack'[k].text) + 1)
    <3>1. stack[k].at \in 1..(Len(stack[k].text) + 1)
      BY DEF IInv, StackSettled
    <3>2. CASE k = Len(stack)
      BY <1>1, <1>2, <3>1, <3>2 DEF More
    <3>3. CASE k # Len(stack)
      <4>1. k \in 1..(Len(stack) - 1)
        BY <1>1, <3>3
      <4> QED
        BY <1>2, <3>1, <4>1
    <3> QED
      BY <3>2, <3>3
  <2>3. ASSUME NEW k \in 1..Len(stack), NEW i \in 1..(stack'[k].at - 1),
               NEW slot, slot = stack'[k].text[i]
        PROVE  Settled(slot, k > 1)'
    <3>1. slot = stack[k].text[i]
      BY <1>2, <2>3
    <3>2. CASE i \in 1..(stack[k].at - 1)
      <4>1. Settled(slot, k > 1)
        BY <3>1, <3>2 DEF IInv, StackSettled
      <4> QED
        BY <1>3, <4>1
    <3>3. CASE k = Len(stack) /\ i = stack[k].at
      <4>1. slot = Slot /\ (k > 1 <=> Nested)
        BY <1>1, <3>1, <3>3 DEF Slot, Nested
      <4> QED
        BY <4>1 DEF Settled, Leads, Reported
    <3>4. stack[k].at \in Nat
      BY DEF IInv, StackSettled
    <3>5. k = Len(stack) \/ k \in 1..(Len(stack) - 1)
      BY <1>1
    <3> QED
      BY <1>2, <3>2, <3>3, <3>4, <3>5
  <2> QED
    BY <1>2, <2>1, <2>2, <2>3 DEF StackSettled
<1>6. ChainTrue'
  <2>1. \A k \in 2..Len(stack) : k \in 1..Len(stack) /\ k - 1 \in 1..(Len(stack) - 1)
                                 /\ k - 1 \in 1..Len(stack)
    BY <1>1
  <2>2. \A k \in 2..Len(stack) :
           /\ stack[k].ref \in Dotted /\ value[stack[k].ref].kind = "string"
           /\ stack[k].text = value[stack[k].ref].text
           /\ stack[k - 1].at <= Len(stack[k - 1].text)
           /\ stack[k - 1].text[stack[k - 1].at].ref = stack[k].ref
    BY DEF IInv, ChainTrue
  <2>3. \A k \in 2..Len(stack) :
           /\ stack'[k].ref \in Dotted /\ value'[stack'[k].ref].kind = "string"
           /\ stack'[k].text = value'[stack'[k].ref].text
           /\ stack'[k - 1].at <= Len(stack'[k - 1].text)
           /\ stack'[k - 1].text[stack'[k - 1].at].ref = stack'[k].ref
    BY <1>2, <2>1, <2>2
  <2>4. \A k, m \in 2..Len(stack) : stack'[k].ref = stack'[m].ref => k = m
    BY <1>2, <2>1 DEF IInv, ChainTrue
  <2>5. Len(stack) <= MaxDepth + 1
    BY DEF IInv, ChainTrue
  <2> QED
    BY <1>1, <1>2, <2>3, <2>4, <2>5 DEF ChainTrue
<1>7. ExpandedSettled'
  BY <1>3 DEF IInv, ExpandedSettled
<1>8. MissingTrue'
  <2>1. \A r : Required(r) => Required(r)'
    <3>1. \A k \in 2..Len(stack) : k \in 1..Len(stack)
      BY <1>1
    <3>2. \A k \in 2..Len(stack) : k \in 2..Len(stack') /\ stack'[k].ref = stack[k].ref
      BY <1>2, <3>1
    <3> QED
      BY <3>2, RequiredKept
  <2>2. \A i \in 1..Len(missing') : Required(missing'[i])
    <3>1. CASE missing' = missing
      BY <3>1 DEF IInv, MissingTrue
    <3>2. ASSUME NEW r \in Dotted \cup Markers, missing' = Append(missing, r), Required(r)
          PROVE  \A i \in 1..Len(missing') : Required(missing'[i])
      <4>1. \A i \in 1..Len(missing') : missing'[i] = r
                \/ (i \in 1..Len(missing) /\ missing'[i] = missing[i])
        <5>1. missing \in Seq(Dotted \cup Markers)
          BY <1>1 DEF TypeOK
        <5> QED
          BY <3>2, <5>1
      <4> QED
        BY <3>2, <4>1 DEF IInv, MissingTrue
    <3> QED
      BY <3>1, <3>2
  <2> QED
    BY <2>1, <2>2 DEF MissingTrue
<1>9. Decided'
  BY <1>1 DEF Decided
<1> QED
  BY <1>5, <1>6, <1>7, <1>8, <1>9 DEF IInv

\* What is at the reference that is read.
LEMMA Reading ==
  ASSUME IInv, More
  PROVE  /\ TypeOK /\ Len(stack) \in Nat /\ Len(stack) >= 1 /\ status = "running"
         /\ Current = stack[Len(stack)] /\ Current \in Frames
         /\ Slot \in Slots /\ Slot \in SlotsOf(Current.text) /\ Ref = Slot.ref
         /\ Slot.required \in BOOLEAN /\ Slot.ref \in Dotted \cup Flat \cup Markers
<1>1. TypeOK /\ Len(stack) \in Nat /\ Len(stack) >= 1
  BY DEF IInv, StackSettled, TypeOK
<1>2. /\ Current = stack[Len(stack)] /\ Current \in Frames
      /\ Current.at \in Nat /\ Current.text \in Seq(Slots) /\ status = "running"
  BY <1>1, ReadSlot
<1>3. Current.at >= 1
  BY <1>1, <1>2 DEF IInv, StackSettled
<1>4. Slot \in Slots /\ Slot = Current.text[Current.at]
  BY <1>1, <1>3, ReadSlot
<1>5. Current.at \in 1..Len(Current.text)
  BY <1>2, <1>3 DEF More
<1> QED
  BY <1>1, <1>2, <1>4, <1>5 DEF SlotsOf, Slots, Ref

\* The innermost text is the template's or that of a value.
LEMMA TextOfCurrent ==
  ASSUME IInv, More
  PROVE  /\ ~Nested => Current.text = template
         /\ Nested => /\ Len(stack) \in 2..Len(stack)
                      /\ Current.ref \in Dotted
                      /\ Current.text = value[Current.ref].text
<1>1. Len(stack) \in Nat /\ Len(stack) >= 1 /\ Current = stack[Len(stack)]
  BY Reading
<1> QED
  BY <1>1 DEF IInv, StackSettled, ChainTrue, Nested

LEMMA CopyKeeps == IInv /\ Copy /\ TypeOK' => IInv'
<1> SUFFICES ASSUME IInv, Copy, TypeOK' PROVE IInv'
  OBVIOUS
<1>1. More /\ Ref = Slot.ref
  BY Reading DEF Copy
<1>2. (Nested /\ Slot.ref \in Markers) \/ Slot.ref \in Flat \/ Leads(Slot.ref, "literal")
  BY <1>1 DEF Copy, Kept
<1>3. ~Leads(Slot.ref, "string") /\ ~Leads(Slot.ref, "missing")
  BY <1>2 DEF Leads
<1>4. ~(Slot.ref \in Markers /\ ~Nested)
  BY <1>2 DEF Leads
<1> QED
  BY <1>1, <1>3, <1>4, AdvanceKeeps DEF Copy

LEMMA SkipKeeps == IInv /\ Skip /\ TypeOK' => IInv'
<1> SUFFICES ASSUME IInv, Skip, TypeOK' PROVE IInv'
  OBVIOUS
<1>1. More /\ Ref = Slot.ref
  BY Reading DEF Skip
<1>2. ~Leads(Slot.ref, "string") /\ ~Slot.required
  BY <1>1 DEF Skip, Unfound, Leads
<1> QED
  BY <1>1, <1>2, AdvanceKeeps DEF Skip

LEMMA MissKeeps == IInv /\ Miss /\ TypeOK' => IInv'
<1> SUFFICES ASSUME IInv, Miss, TypeOK' PROVE IInv'
  OBVIOUS
<1>1. /\ More /\ Ref = Slot.ref /\ TypeOK /\ Slot \in SlotsOf(Current.text)
      /\ Len(stack) \in Nat /\ Current = stack[Len(stack)]
  BY Reading DEF Miss
<1>2. ~Leads(Slot.ref, "string") /\ Slot.required /\ Ref \in Dotted \cup Markers
  BY <1>1 DEF Miss, Unfound, Leads
<1>3. Required(Ref)
  <2>1. CASE ~Nested
    BY <1>1, <1>2, <2>1, TextOfCurrent DEF Miss, Required, BadInTemplate
  <2>2. CASE Nested
    <3>1. Leads(Ref, "missing")
      BY <2>2 DEF Miss, Kept, Unfound
    <3>2. Ref \in BadIn(Current.ref)
      BY <1>1, <1>2, <2>2, <3>1, TextOfCurrent DEF BadIn
    <3> QED
      BY <1>1, <2>2, <3>2, TextOfCurrent DEF Required
  <2> QED
    BY <2>1, <2>2
<1>4. \E i \in 1..Len(missing') : missing'[i] = Ref
  <2>1. missing \in Seq(Dotted \cup Markers)
    BY <1>1 DEF TypeOK
  <2>2. CASE Reported(Ref)
    BY <2>2 DEF Miss, Reported
  <2>3. CASE ~Reported(Ref)
    <3>1. missing' = Append(missing, Ref)
      BY <2>3 DEF Miss
    <3>2. Len(missing) + 1 \in 1..Len(missing') /\ missing'[Len(missing) + 1] = Ref
      BY <1>2, <2>1, <3>1
    <3> QED
      BY <3>2
  <2> QED
    BY <2>2, <2>3
<1>5. \/ missing' = missing
      \/ \E r \in Dotted \cup Markers : missing' = Append(missing, r) /\ Required(r)
  BY <1>2, <1>3 DEF Miss
<1> QED
  BY <1>1, <1>2, <1>4, <1>5, AdvanceKeeps DEF Miss

\* What a step that reads nothing leaves as it is.
LEMMA NothingRead ==
  ASSUME IInv, UNCHANGED <<template, value, stack, missing, out, expanded>>
  PROVE  StackSettled' /\ ExpandedSettled' /\ MissingTrue'
<1>1. \A slot, nested : Settled(slot, nested) => Settled(slot, nested)'
  BY DEF Settled, Leads, Reported
<1>2. StackSettled'
  BY <1>1 DEF IInv, StackSettled
<1>3. ExpandedSettled'
  BY <1>1 DEF IInv, ExpandedSettled
<1>4. \A r : Required(r) => Required(r)'
  BY RequiredKept
<1>5. MissingTrue'
  BY <1>4 DEF IInv, MissingTrue
<1> QED
  BY <1>2, <1>3, <1>5

\* An expansion that stops names a true chain.
LEMMA StopKeeps == IInv /\ (Cycle \/ Deep) /\ TypeOK' => IInv'
<1> SUFFICES ASSUME IInv, Cycle \/ Deep, TypeOK' PROVE IInv'
  OBVIOUS
<1>1. More /\ UNCHANGED <<template, value, stack, missing, out, expanded>>
  BY DEF Cycle, Deep, Stop
<1>2. StackSettled' /\ ExpandedSettled' /\ MissingTrue'
  BY <1>1, NothingRead
<1>3. Decided'
  BY DEF Decided, Cycle, Deep, Stop
<1>4. ChainTrue'
  <2>1. /\ Current' = Current /\ Ref' = Ref
        /\ Current'.at <= Len(Current'.text) /\ Leads(Ref', "string")
    BY <1>1 DEF Cycle, Deep, More, Current, Ref, Slot
  <2>2. Cycle => status' = "cycle" /\ InChain(Ref)
    BY DEF Cycle, Stop
  <2>3. Deep => status' = "deep" /\ ~InChain(Ref) /\ Len(stack) = MaxDepth + 1
    BY <1>1, Reading DEF Deep, Stop, TooDeep, IInv, ChainTrue
  <2>4. InChain(Ref)' <=> InChain(Ref)
    BY <1>1, <2>1 DEF InChain
  <2>5. Leads(Ref, "string")'
    BY <1>1, <2>1 DEF Leads
  <2>6. status' \in {"cycle", "deep"} =>
          /\ Current'.at <= Len(Current'.text) /\ Leads(Ref, "string")'
          /\ status' = "cycle" => InChain(Ref)'
          /\ status' = "deep" => ~InChain(Ref)' /\ Len(stack') = MaxDepth + 1
    BY <1>1, <2>1, <2>2, <2>3, <2>4, <2>5
  <2> QED
    BY <1>1, <2>6 DEF IInv, ChainTrue
<1> QED
  BY <1>2, <1>3, <1>4 DEF IInv

LEMMA FinishKeeps == IInv /\ Finish /\ TypeOK' => IInv'
<1> SUFFICES ASSUME IInv, Finish, TypeOK' PROVE IInv'
  OBVIOUS
<1>1. UNCHANGED <<template, value, stack, missing, out, expanded>>
  BY DEF Finish
<1>2. StackSettled' /\ ExpandedSettled' /\ MissingTrue'
  BY <1>1, NothingRead
<1>3. Decided'
  <2>1. Len(stack) \in Nat /\ Len(stack) >= 1 /\ Len(stack) = 1
    <3>1. Len(stack) \in Nat
      BY DEF IInv, TypeOK
    <3>2. Len(stack) >= 1
      BY DEF IInv, StackSettled
    <3>3. ~(Len(stack) > 1)
      BY DEF Finish, Nested
    <3>4. \A m \in Nat : m >= 1 /\ ~(m > 1) => m = 1
      OBVIOUS
    <3> QED
      BY <3>1, <3>2, <3>3, <3>4
  <2>2. /\ stack[1].at \in 1..(Len(stack[1].text) + 1) /\ stack[1].text = template
        /\ stack[1].at > Len(stack[1].text)
    BY <2>1 DEF IInv, StackSettled, Finish, Current
  <2>3. Len(template) \in Nat
    BY DEF IInv, TypeOK
  <2>4. stack[1].at = Len(template) + 1
    BY <2>2, <2>3
  <2> QED
    BY <1>1, <2>1, <2>4 DEF Finish, Decided
<1>4. ChainTrue'
  BY <1>1 DEF IInv, ChainTrue, Finish
<1> QED
  BY <1>2, <1>3, <1>4 DEF IInv

LEMMA EnterKeeps == IInv /\ Enter /\ TypeOK' => IInv'
<1> SUFFICES ASSUME IInv, Enter, TypeOK' PROVE IInv'
  OBVIOUS
<1> DEFINE n == Len(stack)
<1>1. /\ More /\ TypeOK /\ n \in Nat /\ n >= 1 /\ status = "running"
      /\ Current = stack[n] /\ Current \in Frames
  BY Reading DEF Enter
<1>2. UNCHANGED <<template, value, missing, out, expanded, status>>
  BY DEF Enter
<1>3. /\ Len(stack') = n + 1
      /\ \A k \in 1..n : stack'[k] = stack[k]
      /\ stack'[n + 1] = Frame(Ref, value[Ref].text) /\ Ref \in Dotted
  BY <1>1, Entered
<1> HIDE DEF n
<1>4. /\ stack'[n + 1].ref = Ref /\ stack'[n + 1].at = 1
      /\ stack'[n + 1].text = value[Ref].text
      /\ value[Ref].kind = "string" /\ Len(value[Ref].text) \in Nat
  <2>1. value[Ref].text \in Seq(Slots)
    BY <1>1, <1>3 DEF TypeOK
  <2> QED
    BY <1>3, <2>1 DEF Frame, Enter, Leads
<1>5. \A k \in 1..(n + 1) : k = n + 1 \/ k \in 1..n
  BY <1>1
<1>6. StackSettled'
  <2>1. /\ stack[1].ref = Top /\ stack[1].text = template /\ 1 \in 1..n
        /\ \A k \in 1..n : stack[k].at \in 1..(Len(stack[k].text) + 1)
    BY <1>1 DEF IInv, StackSettled, n
  <2>2. \A k \in 1..(n + 1) : stack'[k].at \in 1..(Len(stack'[k].text) + 1)
    BY <1>3, <1>4, <1>5, <2>1
  <2>3. ASSUME NEW k \in 1..(n + 1), NEW i \in 1..(stack'[k].at - 1),
               NEW slot, slot = stack'[k].text[i]
        PROVE  Settled(slot, k > 1)'
    <3>1. k \in 1..n
      BY <1>4, <1>5
    <3>2. Settled(slot, k > 1)
      BY <1>3, <2>3, <3>1 DEF IInv, StackSettled, n
    <3> QED
      BY <1>2, <3>2 DEF Settled, Leads, Reported
  <2>4. Len(stack') >= 1 /\ stack'[1].ref = Top /\ stack'[1].text = template'
    BY <1>1, <1>2, <1>3, <2>1
  <2> QED
    BY <1>3, <2>2, <2>3, <2>4 DEF StackSettled
<1>7. ChainTrue'
  <2>1. \A k \in 2..(n + 1) :
           (k = n + 1 \/ k \in 2..n) /\ k - 1 \in 1..n /\ k \in 1..(n + 1)
    BY <1>1
  <2>2. \A k \in 2..n : k \in 1..n
    BY <1>1
  <2>3. \A k \in 2..n :
           /\ stack[k].ref \in Dotted /\ value[stack[k].ref].kind = "string"
           /\ stack[k].text = value[stack[k].ref].text
           /\ stack[k - 1].at <= Len(stack[k - 1].text)
           /\ stack[k - 1].text[stack[k - 1].at].ref = stack[k].ref
    BY DEF IInv, ChainTrue, n
  <2>4. stack[n].at <= Len(stack[n].text) /\ stack[n].text[stack[n].at].ref = Ref
    BY <1>1 DEF More, Ref, Slot
  <2>5. ASSUME NEW k \in 2..(n + 1)
        PROVE  /\ stack'[k].ref \in Dotted /\ value'[stack'[k].ref].kind = "string"
               /\ stack'[k].text = value'[stack'[k].ref].text
               /\ stack'[k - 1].at <= Len(stack'[k - 1].text)
               /\ stack'[k - 1].text[stack'[k - 1].at].ref = stack'[k].ref
    <3>1. CASE k \in 2..n
      <4>1. stack'[k] = stack[k] /\ stack'[k - 1] = stack[k - 1]
        BY <1>3, <2>1, <2>2, <3>1
      <4> QED
        BY <1>2, <2>3, <3>1, <4>1
    <3>2. CASE k = n + 1
      <4>1. stack'[k - 1] = stack[n]
        BY <1>1, <1>3, <3>2
      <4> QED
        BY <1>2, <1>3, <1>4, <2>4, <3>2, <4>1
    <3> QED
      BY <2>1, <3>1, <3>2
  <2>6. \A k \in 2..n : stack[k].ref # Ref
    BY DEF Enter, InChain, n
  <2>7. \A k, m \in 2..n : stack[k].ref = stack[m].ref => k = m
    BY DEF IInv, ChainTrue, n
  <2>8. \A k, m \in 2..(n + 1) : stack'[k].ref = stack'[m].ref => k = m
    BY <1>3, <1>4, <2>1, <2>2, <2>6, <2>7
  <2>9. n + 1 <= MaxDepth + 1
    BY <1>1 DEF Enter, TooDeep, n
  <2> QED
    BY <1>1, <1>2, <1>3, <2>5, <2>8, <2>9 DEF ChainTrue
<1>8. ExpandedSettled'
  BY <1>2 DEF IInv, ExpandedSettled, Settled, Leads, Reported
<1>9. MissingTrue'
  <2>1. \A k \in 2..n : k \in 1..n /\ k \in 2..(n + 1)
    BY <1>1
  <2>2. \A r : Required(r) => Required(r)'
    <3>1. \A k \in 2..Len(stack) : k \in 2..Len(stack') /\ stack'[k].ref = stack[k].ref
      BY <1>3, <2>1 DEF n
    <3> QED
      BY <1>2, <3>1, RequiredKept
  <2> QED
    BY <1>2, <2>2 DEF IInv, MissingTrue
<1>10. Decided'
  BY <1>1, <1>2 DEF Decided
<1> QED
  BY <1>6, <1>7, <1>8, <1>9, <1>10 DEF IInv

LEMMA LeaveKeeps == IInv /\ Leave /\ TypeOK' => IInv'
<1> SUFFICES ASSUME IInv, Leave, TypeOK' PROVE IInv'
  OBVIOUS
<1> DEFINE n == Len(stack) - 1
<1> DEFINE v == Current.ref
<1>1. /\ TypeOK /\ n \in Nat /\ n >= 1 /\ Len(stack) = n + 1 /\ status = "running"
      /\ Current = stack[n + 1]
  BY Left DEF IInv, Current, Leave
<1>2. UNCHANGED <<template, value, missing, out, status>> /\ expanded' = expanded \cup {v}
  BY DEF Leave
<1>3. /\ Len(stack') = n
      /\ \A k \in 1..n : stack'[k].ref = stack[k].ref /\ stack'[k].text = stack[k].text
      /\ \A k \in 1..(n - 1) : stack'[k].at = stack[k].at
      /\ stack'[n].at = stack[n].at + 1
  <2>1. TypeOK
    BY <1>1
  <2>2. Len(stack) - 2 = n - 1
    BY <1>1
  <2> QED
    BY <2>1, <2>2, Left
<1> HIDE DEF n
<1>4. /\ \A k \in 2..(n + 1) : k \in 1..(n + 1) /\ k - 1 \in 1..n
      /\ \A k \in 2..n : k \in 2..(n + 1) /\ k \in 1..n
                             /\ k - 1 \in 1..(n - 1) /\ k - 1 \in 1..n
      /\ \A k \in 1..n : k \in 1..(n + 1) /\ (k = n \/ k \in 1..(n - 1))
      /\ n + 1 \in 2..(n + 1) /\ n + 1 \in 1..(n + 1) /\ n \in 1..n /\ 1 \in 1..n
  BY <1>1
<1>5. /\ v \in Dotted /\ value[v].kind = "string" /\ stack[n + 1].text = value[v].text
      /\ stack[n].at <= Len(stack[n].text) /\ stack[n].text[stack[n].at].ref = v
  <2>1. n + 1 \in 2..Len(stack) /\ (n + 1) - 1 = n
    BY <1>1
  <2> QED
    BY <1>1, <2>1 DEF IInv, ChainTrue
<1>6. \A k \in 1..(n + 1) : /\ stack[k].at \in 1..(Len(stack[k].text) + 1)
                            /\ stack[k].at \in Nat
                            /\ \A i \in 1..(stack[k].at - 1) :
                                  Settled(stack[k].text[i], k > 1)
  BY <1>1 DEF IInv, StackSettled
<1> HIDE DEF v
<1>7. \A slot, nested : Settled(slot, nested) => Settled(slot, nested)'
  BY <1>1, <1>2, SettledKept
<1>8. \A slot, nested : slot.ref = v => Settled(slot, nested)'
  BY <1>2, <1>5 DEF Settled, Leads
<1>9. StackSettled'
  <2>1. stack'[1].ref = Top /\ stack'[1].text = template'
    BY <1>2, <1>3, <1>4 DEF IInv, StackSettled
  <2>2. ASSUME NEW k \in 1..n
        PROVE  stack'[k].at \in 1..(Len(stack'[k].text) + 1)
    <3>1. stack[k].at \in 1..(Len(stack[k].text) + 1) /\ stack'[k].text = stack[k].text
      BY <1>3, <1>4, <1>6
    <3>2. CASE k = n
      <4>1. Len(stack[n].text) \in Nat
        <5>1. stack \in Seq(Frames) /\ n \in 1..Len(stack)
          BY <1>1, <1>4 DEF TypeOK, Frames
        <5>2. stack[n] \in Frames
          BY <5>1
        <5>3. stack[n].text \in Seq(Slots)
          BY <5>2 DEF Frames
        <5> QED
          BY <5>3
      <4>2. stack'[k].at = stack[n].at + 1
        BY <1>3, <3>2
      <4>3. stack[n].at \in Nat /\ stack[n].at >= 1 /\ stack[n].at <= Len(stack[n].text)
        BY <1>4, <1>5, <1>6
      <4> QED
        BY <3>1, <3>2, <4>1, <4>2, <4>3
    <3>3. CASE k \in 1..(n - 1)
      BY <1>3, <3>1, <3>3
    <3> QED
      BY <1>4, <3>2, <3>3
  <2>3. ASSUME NEW k \in 1..n, NEW i \in 1..(stack'[k].at - 1),
               NEW slot, slot = stack'[k].text[i]
        PROVE  Settled(slot, k > 1)'
    <3>1. slot = stack[k].text[i]
      BY <1>3, <2>3
    <3>2. CASE i \in 1..(stack[k].at - 1)
      BY <1>4, <1>6, <1>7, <3>1, <3>2
    <3>3. CASE k = n /\ i = stack[n].at
      BY <1>5, <1>8, <3>1, <3>3
    <3> QED
      BY <1>3, <1>4, <1>6, <3>2, <3>3
  <2> QED
    BY <1>1, <1>3, <2>1, <2>2, <2>3 DEF StackSettled
<1>10. ChainTrue'
  <2>1. \A k \in 2..(n + 1) :
           /\ stack[k].ref \in Dotted /\ value[stack[k].ref].kind = "string"
           /\ stack[k].text = value[stack[k].ref].text
           /\ stack[k - 1].at <= Len(stack[k - 1].text)
           /\ stack[k - 1].text[stack[k - 1].at].ref = stack[k].ref
    BY <1>1 DEF IInv, ChainTrue
  <2>2. \A k \in 2..n :
           /\ stack'[k].ref \in Dotted /\ value'[stack'[k].ref].kind = "string"
           /\ stack'[k].text = value'[stack'[k].ref].text
           /\ stack'[k - 1].at <= Len(stack'[k - 1].text)
           /\ stack'[k - 1].text[stack'[k - 1].at].ref = stack'[k].ref
    <3> SUFFICES ASSUME NEW k \in 2..n
                 PROVE  /\ stack'[k].ref \in Dotted /\ value'[stack'[k].ref].kind = "string"
                        /\ stack'[k].text = value'[stack'[k].ref].text
                        /\ stack'[k - 1].at <= Len(stack'[k - 1].text)
                        /\ stack'[k - 1].text[stack'[k - 1].at].ref = stack'[k].ref
      OBVIOUS
    <3>1. /\ stack'[k].ref = stack[k].ref /\ stack'[k].text = stack[k].text
          /\ stack'[k - 1].text = stack[k - 1].text /\ stack'[k - 1].at = stack[k - 1].at
          /\ k \in 2..(n + 1)
      BY <1>3, <1>4
    <3> QED
      BY <1>2, <2>1, <3>1
  <2>3. \A k, m \in 2..n : stack'[k].ref = stack'[m].ref => k = m
    BY <1>1, <1>3, <1>4 DEF IInv, ChainTrue
  <2>4. n <= MaxDepth + 1
    BY <1>1 DEF IInv, ChainTrue
  <2> QED
    BY <1>1, <1>2, <1>3, <2>2, <2>3, <2>4 DEF ChainTrue
<1>11. ExpandedSettled'
  <2>1. ASSUME NEW p \in expanded', NEW i \in 1..Len(value[p].text),
               NEW slot, slot = value[p].text[i]
        PROVE  Settled(slot, TRUE)'
    <3>1. CASE p \in expanded
      BY <1>7, <2>1, <3>1 DEF IInv, ExpandedSettled
    <3>2. CASE p = v
      <4>1. i \in 1..(stack[n + 1].at - 1) /\ slot = stack[n + 1].text[i]
        BY <1>1, <1>4, <1>5, <1>6, <2>1, <3>2 DEF Leave
      <4>2. Settled(slot, n + 1 > 1)
        BY <1>4, <1>6, <4>1
      <4>3. Settled(slot, TRUE)
        BY <1>1, <4>2 DEF Settled
      <4> QED
        BY <1>7, <4>3
    <3> QED
      BY <1>2, <2>1, <3>1, <3>2
  <2>2. \A p \in expanded' : value'[p].kind = "string"
    BY <1>2, <1>5 DEF IInv, ExpandedSettled
  <2> QED
    BY <1>2, <2>1, <2>2 DEF ExpandedSettled
<1>12. MissingTrue'
  <2>1. \A k \in 2..Len(stack) : k \in 2..n \/ stack[k].ref = v
    BY <1>1 DEF v
  <2>2. \A r : Required(r) => Required(r)'
    <3>1. \A k \in 2..Len(stack) :
             \/ k \in 2..Len(stack') /\ stack'[k].ref = stack[k].ref
             \/ stack[k].ref \in expanded'
      BY <1>2, <1>3, <1>4, <2>1
    <3> QED
      BY <1>2, <3>1, RequiredKept
  <2> QED
    BY <1>2, <2>2 DEF IInv, MissingTrue
<1>13. Decided'
  BY <1>1, <1>2 DEF Decided
<1> QED
  BY <1>9, <1>10, <1>11, <1>12, <1>13 DEF IInv

LEMMA InitIInv == Init => IInv
<1> SUFFICES ASSUME Init PROVE IInv
  OBVIOUS
<1>1. /\ template \in Seq(Slots) /\ Len(template) \in Nat
      /\ stack = <<Frame(Top, template)>> /\ Len(stack) = 1
      /\ stack[1].ref = Top /\ stack[1].text = template /\ stack[1].at = 1
  BY DEF Init, Frame
<1>2. TypeOK
  BY <1>1 DEF Init, TypeOK, Frame
<1>3. StackSettled
  BY <1>1 DEF StackSettled
<1>4. ChainTrue
  BY <1>1 DEF ChainTrue, Init
<1>5. ExpandedSettled /\ MissingTrue /\ Decided
  BY DEF ExpandedSettled, MissingTrue, Decided, Init
<1> QED
  BY <1>2, <1>3, <1>4, <1>5 DEF IInv

LEMMA StepIInv == IInv /\ [Next]_vars => IInv'
<1> SUFFICES ASSUME IInv, [Next]_vars PROVE IInv'
  OBVIOUS
<1>1. TypeOK'
  BY StepTypeOK DEF IInv
<1>2. CASE UNCHANGED vars
  <2>1. UNCHANGED <<template, value, stack, missing, out, expanded, status>>
    BY <1>2 DEF vars
  <2>2. StackSettled' /\ ExpandedSettled' /\ MissingTrue'
    BY <2>1, NothingRead
  <2>3. ChainTrue' /\ Decided'
    BY <2>1 DEF IInv, ChainTrue, Decided, Current, Ref, Slot, Leads, InChain
  <2> QED
    BY <1>1, <2>2, <2>3 DEF IInv
<1> QED
  BY <1>1, <1>2, CopyKeeps, SkipKeeps, MissKeeps, StopKeeps, EnterKeeps, LeaveKeeps,
     FinishKeeps DEF Next

-----------------------------------------------------------------------------
(* The theorems.                                                           *)

\* The inductive invariant holds in every state of expand_checked, for any
\* template, any values that refer to each other, and any MAX_DEPTH; with it the
\* chain that an error names is true, without repetition and within the limit.
THEOREM Invariant == Spec => []IInv
<1>1. Init => IInv
  BY InitIInv
<1>2. IInv /\ [Next]_vars => IInv'
  BY StepIInv
<1> QED
  BY <1>1, <1>2, PTL DEF Spec

\* Type correctness of the expansion.
THEOREM TypeCorrect == Spec => []TypeOK
<1>1. IInv => TypeOK
  BY DEF IInv
<1> QED
  BY <1>1, Invariant, PTL

\* When the function returns, no reference of what it expanded is unread.
LEMMA AllRead ==
  ASSUME IInv, status \in {"ok", "unresolved"}
  PROVE  /\ \A s \in SlotsOf(template) : Settled(s, FALSE)
         /\ \A p \in expanded : \A s \in SlotsOf(value[p].text) : Settled(s, TRUE)
         /\ \A r : Required(r) <=> r \in BadInTemplate
                                       \/ \E p \in expanded : r \in BadIn(p)
<1>1. Len(stack) = 1 /\ stack[1].at = Len(template) + 1 /\ stack[1].text = template
  BY DEF IInv, Decided, StackSettled
<1>2. Len(template) \in Nat
  BY DEF IInv, TypeOK
<1>3. \A i \in 1..Len(template) : Settled(template[i], 1 > 1)
  BY <1>1, <1>2 DEF IInv, StackSettled
<1>4. \A i \in 1..Len(template) : Settled(template[i], FALSE)
  BY <1>3 DEF Settled
<1>5. \A s \in SlotsOf(template) : Settled(s, FALSE)
  BY <1>4 DEF SlotsOf
<1>6. \A p \in expanded : \A s \in SlotsOf(value[p].text) : Settled(s, TRUE)
  BY DEF IInv, ExpandedSettled, SlotsOf
<1>7. 2..Len(stack) = {}
  BY <1>1
<1> QED
  BY <1>5, <1>6, <1>7 DEF Required

\* A command is built only if every required reference in it leads somewhere, at
\* any depth, and the error names exactly those that do not.
THEOREM Honesty == Spec => []Honest
<1>1. IInv => Honest
  <2> SUFFICES ASSUME IInv, status \in {"ok", "unresolved"}
               PROVE  /\ Strings(template) \subseteq expanded
                      /\ \A p \in expanded : Strings(value[p].text) \subseteq expanded
                      /\ {missing[i] : i \in 1..Len(missing)}
                            = BadInTemplate \cup UNION {BadIn(p) : p \in expanded}
                      /\ status = "ok" <=> missing = <<>>
    BY DEF Honest
  <2>1. Strings(template) \subseteq expanded
    BY AllRead DEF Strings, Settled
  <2>2. \A p \in expanded : Strings(value[p].text) \subseteq expanded
    BY AllRead DEF Strings, Settled
  <2>3. ASSUME NEW i \in 1..Len(missing)
        PROVE  missing[i] \in BadInTemplate \cup UNION {BadIn(p) : p \in expanded}
    <3>1. Required(missing[i])
      BY DEF IInv, MissingTrue
    <3> QED
      BY <3>1, AllRead
  <2>4. ASSUME NEW r \in BadInTemplate PROVE Reported(r)
    BY <2>4, AllRead DEF BadInTemplate, Unfound, Settled
  <2>5. ASSUME NEW p \in expanded, NEW r \in BadIn(p) PROVE Reported(r)
    BY <2>5, AllRead DEF BadIn, Settled
  <2>6. status = "ok" <=> missing = <<>>
    BY DEF IInv, Decided
  <2> QED
    BY <2>1, <2>2, <2>3, <2>4, <2>5, <2>6 DEF Reported
<1> QED
  BY <1>1, Invariant, PTL

-----------------------------------------------------------------------------
(* Recursion over the natural numbers.                                     *)

\* Induction over the natural numbers, for a set of them.
LEMMA NatSetInduction ==
  ASSUME NEW S, 0 \in S, \A n \in Nat : n \in S => n + 1 \in S
  PROVE  Nat \subseteq S
<1> DEFINE R == {p \in Nat \X Nat : p[1] < p[2]}
           T == Nat \ S
<1>1. SUFFICES ASSUME T # {} PROVE FALSE
  OBVIOUS
<1>2. IsWellFoundedOn(R, Nat)
  BY NatLessThanWellFounded, Zenon DEF OpToRel
<1>3. T \subseteq Nat
  OBVIOUS
<1>4. PICK x \in T : \A y \in T : ~ (<<y, x>> \in R)
  <2> HIDE DEF T, R
  <2> QED
    BY <1>1, <1>2, <1>3, WFMin
<1>5. x # 0 /\ x \in Nat
  OBVIOUS
<1>6. x - 1 \in Nat /\ x - 1 < x /\ (x - 1) + 1 = x
  BY <1>5
<1>7. x - 1 \notin T
  BY <1>4, <1>6
<1> QED
  BY <1>4, <1>5, <1>6, <1>7

\* A function on the numbers up to n, by its first value and its step.
Approx(n, g, S, f0, G) ==
    /\ g \in [0..n -> S]
    /\ g[0] = f0
    /\ \A m \in 1..n : g[m] = G[<<m, g[m - 1]>>]

\* Two such functions agree as far as both go.
LEMMA ApproxAgree ==
  ASSUME NEW S, NEW f0, NEW G, NEW n \in Nat, NEW k \in Nat, NEW g, NEW h,
         Approx(n, g, S, f0, G), Approx(k, h, S, f0, G)
  PROVE  \A m \in Nat : m <= n /\ m <= k => g[m] = h[m]
<1> DEFINE A == {m \in Nat : m <= n /\ m <= k => g[m] = h[m]}
<1>1. 0 \in A
  BY DEF Approx
<1>2. ASSUME NEW m \in Nat, m \in A PROVE m + 1 \in A
  <2>1. CASE m + 1 <= n /\ m + 1 <= k
    <3>1. g[m] = h[m] /\ m + 1 \in 1..n /\ m + 1 \in 1..k /\ (m + 1) - 1 = m
      BY <1>2, <2>1
    <3>2. g[m + 1] = G[<<m + 1, g[m]>>] /\ h[m + 1] = G[<<m + 1, h[m]>>]
      BY <3>1 DEF Approx
    <3> QED
      BY <3>1, <3>2
  <2> QED
    BY <2>1
<1> HIDE DEF A
<1>3. Nat \subseteq A
  BY <1>1, <1>2, NatSetInduction
<1> QED
  BY <1>3 DEF A

\* There is one up to any number.
LEMMA ApproxExists ==
  ASSUME NEW S, NEW f0 \in S, NEW G \in [Nat \X S -> S]
  PROVE  \A n \in Nat : \E g : Approx(n, g, S, f0, G)
<1> DEFINE A == {n \in Nat : \E g : Approx(n, g, S, f0, G)}
<1>1. 0 \in A
  <2> DEFINE g0 == [m \in 0..0 |-> f0]
  <2>1. Approx(0, g0, S, f0, G)
    BY DEF Approx
  <2> QED
    BY <2>1
<1>2. ASSUME NEW n \in Nat, n \in A PROVE n + 1 \in A
  <2>1. PICK g : Approx(n, g, S, f0, G)
    BY <1>2
  <2> DEFINE h == [m \in 0..(n + 1) |-> IF m = n + 1 THEN G[<<n + 1, g[n]>>] ELSE g[m]]
  <2>2. g \in [0..n -> S] /\ n \in 0..n
    BY <2>1 DEF Approx
  <2>3. G[<<n + 1, g[n]>>] \in S
    BY <2>2
  <2>4. h \in [0..(n + 1) -> S]
    BY <2>2, <2>3
  <2>5. h[0] = f0
    BY <2>1 DEF Approx
  <2>6. ASSUME NEW m \in 1..(n + 1) PROVE h[m] = G[<<m, h[m - 1]>>]
    <3>1. CASE m = n + 1
      <4>1. n \in 0..(n + 1) /\ n # n + 1 /\ m - 1 = n /\ m \in 0..(n + 1)
        BY <3>1
      <4>2. h[n] = g[n]
        BY <4>1
      <4>3. h[m] = G[<<n + 1, g[n]>>]
        BY <3>1, <4>1
      <4> QED
        BY <3>1, <4>1, <4>2, <4>3
    <3>2. CASE m # n + 1
      <4>1. m \in 1..n /\ m - 1 \in 0..n /\ m \in 0..(n + 1) /\ m - 1 \in 0..(n + 1)
            /\ m - 1 # n + 1
        BY <3>2
      <4>2. h[m] = g[m] /\ h[m - 1] = g[m - 1]
        BY <3>2, <4>1
      <4>3. g[m] = G[<<m, g[m - 1]>>]
        BY <2>1, <4>1 DEF Approx
      <4> QED
        BY <4>2, <4>3
    <3> QED
      BY <3>1, <3>2
  <2>7. Approx(n + 1, h, S, f0, G)
    <3> HIDE DEF h
    <3> QED
      BY <2>4, <2>5, <2>6 DEF Approx
  <2> QED
    BY <2>7
<1> HIDE DEF A
<1>3. Nat \subseteq A
  BY <1>1, <1>2, NatSetInduction
<1> QED
  BY <1>3 DEF A

\* There is a function with that first value and that step.
Definable(S, f0, G) ==
    \E f \in [Nat -> S] :
        f[0] = f0 /\ \A n \in Nat : n # 0 => f[n] = G[<<n, f[n - 1]>>]

\* A recursion over the natural numbers has a solution.
LEMMA Recursion ==
  ASSUME NEW S, NEW f0 \in S, NEW G \in [Nat \X S -> S]
  PROVE  Definable(S, f0, G)
<1> DEFINE app(n) == CHOOSE g : Approx(n, g, S, f0, G)
           f == [n \in Nat |-> app(n)[n]]
<1>1. \A n \in Nat : Approx(n, app(n), S, f0, G)
  BY ApproxExists
<1> HIDE DEF app
<1>2. f \in [Nat -> S]
  BY <1>1 DEF Approx
<1>3. f[0] = f0
  BY <1>1 DEF Approx
<1>4. ASSUME NEW n \in Nat, n # 0 PROVE f[n] = G[<<n, f[n - 1]>>]
  <2>1. n - 1 \in Nat /\ n - 1 <= n /\ n \in 1..n
    BY <1>4
  <2>2. app(n)[n - 1] = app(n - 1)[n - 1]
    BY <1>1, <2>1, ApproxAgree
  <2>3. app(n)[n] = G[<<n, app(n)[n - 1]>>]
    BY <1>1, <2>1 DEF Approx
  <2> QED
    BY <2>1, <2>2, <2>3
<1> HIDE DEF f
<1> QED
  BY <1>2, <1>3, <1>4 DEF Definable

-----------------------------------------------------------------------------
(* Joined: the pieces of a text, one after the other.                      *)

\* Joined is the function its recursion describes.
LEMMA JoinedDef ==
  ASSUME NEW T, NEW p \in Seq(Seq(T))
  PROVE  Joined(p) = [i \in Nat |->
                         IF i \in 1..Len(p) THEN Joined(p)[i - 1] \o p[i] ELSE <<>>]
<1> DEFINE S == Seq(T)
           G == [q \in Nat \X S |-> IF q[1] \in 1..Len(p) THEN q[2] \o p[q[1]] ELSE <<>>]
<1>1. G \in [Nat \X S -> S] /\ <<>> \in S
  OBVIOUS
<1>2. PICK f \in [Nat -> S] :
         f[0] = <<>> /\ \A n \in Nat : n # 0 => f[n] = G[<<n, f[n - 1]>>]
  <2> HIDE DEF G, S
  <2>1. Definable(S, <<>>, G)
    BY <1>1, Recursion
  <2> QED
    BY <2>1 DEF Definable
<1>3. ASSUME NEW i \in Nat PROVE f[i] = IF i \in 1..Len(p) THEN f[i - 1] \o p[i] ELSE <<>>
  <2>1. CASE i = 0
    BY <1>2, <2>1
  <2>2. CASE i # 0
    <3>1. i - 1 \in Nat /\ f[i - 1] \in S
      BY <1>2, <2>2
    <3>2. f[i] = G[<<i, f[i - 1]>>]
      BY <1>2, <2>2
    <3> QED
      BY <3>1, <3>2
  <2> QED
    BY <2>1, <2>2
<1>4. f = [i \in Nat |-> IF i \in 1..Len(p) THEN f[i - 1] \o p[i] ELSE <<>>]
  BY <1>2, <1>3
<1>5. \E J : J = [i \in Nat |-> IF i \in 1..Len(p) THEN J[i - 1] \o p[i] ELSE <<>>]
  BY <1>4
<1> QED
  BY <1>5, Zenon DEF Joined

\* The pieces are joined one after the other.
LEMMA JoinedStep ==
  ASSUME NEW T, NEW p \in Seq(Seq(T))
  PROVE  /\ Joined(p)[0] = <<>>
         /\ \A i \in 1..Len(p) : Joined(p)[i] = Joined(p)[i - 1] \o p[i]
         /\ \A i \in 0..Len(p) : Joined(p)[i] \in Seq(T)
<1> DEFINE J == Joined(p)
<1>1. J = [i \in Nat |-> IF i \in 1..Len(p) THEN J[i - 1] \o p[i] ELSE <<>>]
  BY JoinedDef
<1> HIDE DEF J
<1>2. J[0] = <<>> /\ \A i \in 1..Len(p) : J[i] = J[i - 1] \o p[i]
  <2>1. 0 \in Nat /\ 0 \notin 1..Len(p) /\ \A i \in 1..Len(p) : i \in Nat
    OBVIOUS
  <2>2. \A i \in Nat : J[i] = IF i \in 1..Len(p) THEN J[i - 1] \o p[i] ELSE <<>>
    BY <1>1, Zenon
  <2> QED
    BY <2>1, <2>2, Zenon
<1> DEFINE A == {i \in Nat : i <= Len(p) => J[i] \in Seq(T)}
<1>3. 0 \in A
  <2>1. <<>> \in Seq(T)
    OBVIOUS
  <2> QED
    BY <1>2, <2>1
<1>4. ASSUME NEW i \in Nat, i \in A PROVE i + 1 \in A
  <2>1. CASE i + 1 <= Len(p)
    <3>1. i + 1 \in 1..Len(p) /\ (i + 1) - 1 = i /\ J[i] \in Seq(T)
      BY <1>4, <2>1
    <3>2. J[i + 1] = J[i] \o p[i + 1]
      BY <1>2, <3>1
    <3>3. p[i + 1] \in Seq(T)
      BY <3>1
    <3>4. J[i] \o p[i + 1] \in Seq(T)
      BY <3>1, <3>3
    <3>5. J[i + 1] \in Seq(T)
      BY <3>2, <3>4, Zenon
    <3> QED
      BY <3>5
  <2> QED
    BY <2>1
<1> HIDE DEF A
<1>5. Nat \subseteq A
  BY <1>3, <1>4, NatSetInduction
<1>6. \A i \in 0..Len(p) : J[i] \in Seq(T)
  BY <1>5 DEF A
<1> QED
  BY <1>2, <1>6 DEF J

\* What is joined depends on the pieces up to there.
LEMMA JoinedAgree ==
  ASSUME NEW T, NEW p \in Seq(Seq(T)), NEW q \in Seq(Seq(T)), NEW n \in Nat,
         n <= Len(p), n <= Len(q), \A i \in 1..n : p[i] = q[i]
  PROVE  Joined(p)[n] = Joined(q)[n]
<1> DEFINE A == {i \in Nat : i <= n => Joined(p)[i] = Joined(q)[i]}
<1>1. 0 \in A
  BY JoinedStep
<1>2. ASSUME NEW i \in Nat, i \in A PROVE i + 1 \in A
  <2>1. CASE i + 1 <= n
    <3>1. i + 1 \in 1..n /\ i + 1 \in 1..Len(p) /\ i + 1 \in 1..Len(q) /\ (i + 1) - 1 = i
      BY <2>1
    <3>2. Joined(p)[i] = Joined(q)[i] /\ p[i + 1] = q[i + 1]
      BY <1>2, <2>1, <3>1
    <3>3. /\ Joined(p)[i + 1] = Joined(p)[i] \o p[i + 1]
          /\ Joined(q)[i + 1] = Joined(q)[i] \o q[i + 1]
      BY <3>1, JoinedStep
    <3>4. Joined(p)[i + 1] = Joined(q)[i + 1]
      BY <3>2, <3>3, Zenon
    <3> QED
      BY <3>4
  <2> QED
    BY <2>1
<1> HIDE DEF A
<1>3. Nat \subseteq A
  BY <1>1, <1>2, NatSetInduction
<1> QED
  BY <1>3 DEF A

-----------------------------------------------------------------------------
(* Expansion: what a text becomes.                                         *)

Names == Dotted \cup Flat \cup Markers
Texts == [Seq(Slots) -> Seq(Names)]

\* A reference becomes a sequence of names.
LEMMA PieceType ==
  ASSUME NEW val \in [Dotted -> Values], NEW n, NEW inner \in Texts, NEW slot \in Slots
  PROVE  Piece(val, n, inner, slot) \in Seq(Names)
<1>1. <<>> \in Seq(Names)
  OBVIOUS
<1>2. slot.ref \in Names
  BY DEF Slots, Names
<1>3. <<slot.ref>> \in Seq(Names)
  BY <1>2
<1>4. ASSUME slot.ref \in Dotted
      PROVE  val[slot.ref].kind \in Kinds /\ val[slot.ref].text \in Seq(Slots)
  BY <1>4
<1>5. ASSUME slot.ref \in Dotted PROVE inner[val[slot.ref].text] \in Seq(Names)
  BY <1>4, <1>5 DEF Texts
<1> QED
  BY <1>1, <1>3, <1>4, <1>5 DEF Piece, Kinds

\* The pieces of a text are those of its references, in order.
LEMMA PiecesType ==
  ASSUME NEW val \in [Dotted -> Values], NEW n, NEW inner \in Texts,
         NEW text \in Seq(Slots)
  PROVE  /\ Pieces(val, n, inner, text) \in Seq(Seq(Names))
         /\ Len(Pieces(val, n, inner, text)) = Len(text)
         /\ \A i \in 1..Len(text) :
               Pieces(val, n, inner, text)[i] = Piece(val, n, inner, text[i])
<1>1. Len(text) \in Nat /\ \A i \in 1..Len(text) : text[i] \in Slots
  OBVIOUS
<1>2. \A i \in 1..Len(text) : Piece(val, n, inner, text[i]) \in Seq(Names)
  BY <1>1, PieceType
<1> QED
  BY <1>1, <1>2 DEF Pieces

\* So a text does.
LEMMA LevelType ==
  ASSUME NEW val \in [Dotted -> Values], NEW n, NEW inner \in Texts
  PROVE  Level(val, n, inner) \in Texts
<1>1. ASSUME NEW text \in Seq(Slots)
      PROVE  Joined(Pieces(val, n, inner, text))[Len(text)] \in Seq(Names)
  <2>1. Len(text) \in 0..Len(Pieces(val, n, inner, text))
    BY PiecesType
  <2> QED
    BY <2>1, PiecesType, JoinedStep
<1> QED
  BY <1>1 DEF Level, Texts

\* Expansion is the function its recursion describes.
LEMMA ExpansionDef ==
  ASSUME NEW val \in [Dotted -> Values]
  PROVE  Expansion(val) =
            [n \in Nat |-> Level(val, n, IF n = 0 THEN NoText ELSE Expansion(val)[n - 1])]
<1> DEFINE G == [q \in Nat \X Texts |-> Level(val, q[1], q[2])]
<1>1. NoText \in Texts
  BY DEF NoText, Texts
<1>2. G \in [Nat \X Texts -> Texts] /\ Level(val, 0, NoText) \in Texts
  BY <1>1, LevelType
<1>3. Definable(Texts, Level(val, 0, NoText), G)
  <2> HIDE DEF G
  <2> QED
    BY <1>2, Recursion
<1>4. PICK f \in [Nat -> Texts] :
         f[0] = Level(val, 0, NoText) /\ \A n \in Nat : n # 0 => f[n] = G[<<n, f[n - 1]>>]
  BY <1>3 DEF Definable
<1>5. ASSUME NEW n \in Nat
      PROVE  f[n] = Level(val, n, IF n = 0 THEN NoText ELSE f[n - 1])
  <2>1. CASE n = 0
    BY <1>4, <2>1
  <2>2. CASE n # 0
    <3>1. n - 1 \in Nat /\ f[n - 1] \in Texts
      BY <2>2
    <3>2. f[n] = G[<<n, f[n - 1]>>]
      BY <1>4, <2>2
    <3> QED
      BY <2>2, <3>1, <3>2
  <2> QED
    BY <2>1, <2>2
<1>6. f = [n \in Nat |-> Level(val, n, IF n = 0 THEN NoText ELSE f[n - 1])]
  BY <1>5
<1>7. \E T : T = [n \in Nat |-> Level(val, n, IF n = 0 THEN NoText ELSE T[n - 1])]
  BY <1>6
<1> QED
  BY <1>7, Zenon DEF Expansion

\* What a text becomes is what its references become, one after the other.
LEMMA ExpansionStep ==
  ASSUME NEW val \in [Dotted -> Values]
  PROVE  /\ Expansion(val) \in [Nat -> Texts]
         /\ \A n \in Nat : Inner(val, n) \in Texts
         /\ \A n \in Nat : Expansion(val)[n] = Level(val, n, Inner(val, n))
<1> DEFINE X == Expansion(val)
<1>1. X = [n \in Nat |-> Level(val, n, IF n = 0 THEN NoText ELSE X[n - 1])]
  BY ExpansionDef
<1> HIDE DEF X
<1>2. \A n \in Nat : X[n] = Level(val, n, IF n = 0 THEN NoText ELSE X[n - 1])
  BY <1>1, Zenon
<1>3. NoText \in Texts
  BY DEF NoText, Texts
<1> DEFINE A == {n \in Nat : X[n] \in Texts}
<1>4. 0 \in A
  BY <1>2, <1>3, LevelType
<1>5. ASSUME NEW n \in Nat, n \in A PROVE n + 1 \in A
  <2>1. n + 1 \in Nat /\ n + 1 # 0 /\ (n + 1) - 1 = n /\ X[n] \in Texts
    BY <1>5
  <2>2. X[n + 1] = Level(val, n + 1, X[n])
    BY <1>2, <2>1
  <2>3. X[n + 1] \in Texts
    BY <2>1, <2>2, LevelType
  <2> QED
    BY <2>1, <2>3
<1> HIDE DEF A
<1>6. Nat \subseteq A
  BY <1>4, <1>5, NatSetInduction
<1>7. \A n \in Nat : X[n] \in Texts
  BY <1>6 DEF A
<1>8. X \in [Nat -> Texts]
  <2>1. X = [n \in Nat |-> X[n]]
    BY <1>1
  <2> QED
    BY <1>7, <2>1
<1>9. \A n \in Nat : n # 0 => n - 1 \in Nat
  OBVIOUS
<1> QED
  BY <1>2, <1>3, <1>7, <1>8, <1>9 DEF X, Inner

-----------------------------------------------------------------------------
(* Chains of references, and those that are on the stack.                  *)

\* Only a dotted reference leads to a string.
LEMMA StringsDotted == ASSUME NEW text PROVE Strings(text) \subseteq Dotted
BY DEF Strings, Leads

\* A string that a slot of a text leads to.
LEMMA StringAt ==
  ASSUME NEW text, NEW i \in 1..Len(text), Leads(text[i].ref, "string")
  PROVE  text[i].ref \in Strings(text)
BY DEF Strings, SlotsOf

\* Some chain of n references from a text ends with that one.
LeadsTo(text, n, ref) == \E c \in ChainsFrom(text, n) : c[n] = ref

\* A chain goes on with any string of its last value.
LEMMA ChainAppend ==
  ASSUME NEW text, NEW n \in Nat, NEW c \in ChainsFrom(text, n),
         NEW p \in Strings(IF n = 0 THEN text ELSE value[c[n]].text)
  PROVE  LeadsTo(text, n + 1, p)
<1> DEFINE d == [i \in 1..(n + 1) |-> IF i = n + 1 THEN p ELSE c[i]]
<1>1. p \in Dotted
  BY StringsDotted
<1>2. c \in [1..n -> Dotted]
  BY DEF ChainsFrom
<1>3. \A i \in 1..(n + 1) : i = n + 1 \/ (i \in 1..n /\ i # n + 1)
  OBVIOUS
<1>4. d \in [1..(n + 1) -> Dotted]
  BY <1>1, <1>2, <1>3
<1>5. ASSUME NEW i \in 1..(n + 1)
      PROVE  d[i] \in Strings(IF i = 1 THEN text ELSE value[d[i - 1]].text)
  <2>1. CASE i = n + 1
    <3>1. d[i] = p
      BY <2>1
    <3>2. CASE n = 0
      BY <2>1, <3>1, <3>2
    <3>3. CASE n # 0
      <4>1. i # 1 /\ i - 1 = n /\ n \in 1..(n + 1) /\ n # n + 1
        BY <2>1, <3>3
      <4>2. d[i - 1] = c[n]
        BY <4>1
      <4> QED
        BY <3>1, <3>3, <4>1, <4>2
    <3> QED
      BY <3>2, <3>3
  <2>2. CASE i \in 1..n
    <3>1. d[i] = c[i] /\ (i # 1 => i - 1 \in 1..(n + 1) /\ i - 1 # n + 1)
      BY <2>2
    <3>2. i # 1 => d[i - 1] = c[i - 1]
      BY <3>1
    <3>3. c[i] \in Strings(IF i = 1 THEN text ELSE value[c[i - 1]].text)
      BY <2>2 DEF ChainsFrom
    <3> QED
      BY <3>1, <3>2, <3>3
  <2> QED
    BY <1>3, <2>1, <2>2
<1>6. d[n + 1] = p
  BY <1>3
<1> HIDE DEF d
<1>7. d \in ChainsFrom(text, n + 1)
  BY <1>4, <1>5 DEF ChainsFrom
<1> QED
  BY <1>6, <1>7 DEF LeadsTo

\* A chain starts with a string of its text, and goes on from that.
LEMMA ChainRest ==
  ASSUME NEW text, NEW n \in Nat, ChainsFrom(text, n + 1) # {}
  PROVE  \E p \in Strings(text) : ChainsFrom(value[p].text, n) # {}
<1>1. PICK c : c \in ChainsFrom(text, n + 1)
  OBVIOUS
<1> DEFINE d == [i \in 1..n |-> c[i + 1]]
<1>2. c \in [1..(n + 1) -> Dotted]
      /\ \A i \in 1..(n + 1) :
            c[i] \in Strings(IF i = 1 THEN text ELSE value[c[i - 1]].text)
  BY <1>1 DEF ChainsFrom
<1>3. \A i \in 1..n : i + 1 \in 1..(n + 1) /\ i + 1 # 1 /\ (i + 1) - 1 = i
  OBVIOUS
<1>4. d \in [1..n -> Dotted]
  BY <1>2, <1>3
<1>5. ASSUME NEW i \in 1..n
      PROVE  d[i] \in Strings(IF i = 1 THEN value[c[1]].text ELSE value[d[i - 1]].text)
  <2>1. d[i] = c[i + 1] /\ c[i + 1] \in Strings(value[c[i]].text)
    BY <1>2, <1>3
  <2>2. i # 1 => i - 1 \in 1..n /\ (i - 1) + 1 = i
    OBVIOUS
  <2>3. i # 1 => d[i - 1] = c[i]
    BY <2>2
  <2> QED
    BY <2>1, <2>3
<1> HIDE DEF d
<1>6. d \in ChainsFrom(value[c[1]].text, n)
  BY <1>4, <1>5 DEF ChainsFrom
<1>7. c[1] \in Strings(text)
  <2>1. 1 \in 1..(n + 1)
    OBVIOUS
  <2> QED
    BY <1>2, <2>1
<1> QED
  BY <1>6, <1>7

\* The references on the stack are a chain of the template's, and the string
\* that is read next goes on with it.
LEMMA StackChain ==
  ASSUME IInv, NEW m \in Nat, Len(stack) = m + 1
  PROVE  \E c \in Chains(m) :
            /\ \A i \in 1..m : c[i] = stack[i + 1].ref
            /\ Current.at <= Len(Current.text) /\ Leads(Ref, "string")
                 => Ref \in Strings(IF m = 0 THEN template ELSE value[c[m]].text)
<1> DEFINE c == [i \in 1..m |-> stack[i + 1].ref]
<1>1. \A i \in 1..m : /\ i + 1 \in 2..Len(stack) /\ (i + 1) - 1 = i
                      /\ i \in 1..Len(stack)
                      /\ i # 1 => i \in 2..Len(stack) /\ i - 1 \in 1..m /\ (i - 1) + 1 = i
  OBVIOUS
<1>2. \A k \in 2..Len(stack) :
         /\ stack[k].ref \in Dotted /\ value[stack[k].ref].kind = "string"
         /\ stack[k].text = value[stack[k].ref].text
         /\ stack[k - 1].at <= Len(stack[k - 1].text)
         /\ stack[k - 1].text[stack[k - 1].at].ref = stack[k].ref
  BY DEF IInv, ChainTrue
<1>3. \A k \in 1..Len(stack) : /\ stack[k].at \in Nat /\ stack[k].at >= 1
                               /\ stack[k].text \in Seq(Slots)
  <2>1. ASSUME NEW k \in 1..Len(stack) PROVE stack[k].at \in Nat /\ stack[k].at >= 1
    BY DEF IInv, StackSettled
  <2>2. stack \in Seq(Frames)
    BY DEF IInv, TypeOK, Frames
  <2>3. \A k \in 1..Len(stack) : stack[k] \in Frames
    BY <2>2
  <2> QED
    BY <2>1, <2>3 DEF Frames
<1>4. stack[1].text = template
  BY DEF IInv, StackSettled
<1>5. \A k \in 1..Len(stack) :
         k # 1 => stack[k].text = value[stack[k].ref].text
  <2>1. \A k \in 1..Len(stack) : k # 1 => k \in 2..Len(stack)
    OBVIOUS
  <2> QED
    BY <1>2, <2>1
<1>6. ASSUME NEW k \in 1..Len(stack), stack[k].at <= Len(stack[k].text),
             Leads(stack[k].text[stack[k].at].ref, "string")
      PROVE  stack[k].text[stack[k].at].ref \in Strings(stack[k].text)
  <2>1. stack[k].at \in 1..Len(stack[k].text)
    BY <1>3, <1>6
  <2> QED
    BY <1>6, <2>1, StringAt
<1>7. c \in [1..m -> Dotted]
  BY <1>1, <1>2
<1>8. ASSUME NEW i \in 1..m
      PROVE  c[i] \in Strings(IF i = 1 THEN template ELSE value[c[i - 1]].text)
  <2>1. c[i] = stack[i].text[stack[i].at].ref /\ stack[i].at <= Len(stack[i].text)
        /\ Leads(c[i], "string")
    BY <1>1, <1>2 DEF Leads
  <2>2. c[i] \in Strings(stack[i].text)
    BY <1>1, <1>6, <2>1
  <2>3. i # 1 => c[i - 1] = stack[i].ref
    BY <1>1
  <2> QED
    BY <1>1, <1>4, <1>5, <2>2, <2>3
<1>9. \A i \in 1..m : c[i] = stack[i + 1].ref
  OBVIOUS
<1>10. ASSUME Current.at <= Len(Current.text), Leads(Ref, "string")
       PROVE  Ref \in Strings(IF m = 0 THEN template ELSE value[c[m]].text)
  <2>1. Len(stack) \in 1..Len(stack) /\ m + 1 = Len(stack)
    OBVIOUS
  <2>2. Ref \in Strings(stack[Len(stack)].text)
    BY <1>6, <1>10, <2>1 DEF Current, Ref, Slot
  <2>3. CASE m = 0
    BY <1>4, <2>2, <2>3
  <2>4. CASE m # 0
    <3>1. m \in 1..m /\ Len(stack) # 1
      BY <2>4
    <3>2. c[m] = stack[Len(stack)].ref
      BY <1>9, <2>1, <3>1
    <3> QED
      BY <1>5, <2>1, <2>2, <2>4, <3>1, <3>2
  <2> QED
    BY <2>3, <2>4
<1> HIDE DEF c
<1>11. c \in Chains(m)
  BY <1>7, <1>8 DEF Chains, ChainsFrom
<1> QED
  BY <1>9, <1>10, <1>11

\* Where the expansion ends for a chain, there is one that is too long.
LEMMA TooLong ==
  ASSUME IInv, status \in {"cycle", "deep"}
  PROVE  Chains(MaxDepth + 1) # {}
<1>1. /\ Len(stack) \in Nat /\ Len(stack) >= 1 /\ Len(stack) <= MaxDepth + 1
      /\ Current.at <= Len(Current.text) /\ Leads(Ref, "string")
      /\ Current = stack[Len(stack)]
  BY DEF IInv, TypeOK, StackSettled, ChainTrue, Current
<1> DEFINE m == Len(stack) - 1
<1>2. m \in Nat /\ Len(stack) = m + 1 /\ m <= MaxDepth
  BY <1>1
<1> HIDE DEF m
<1>3. PICK c \in Chains(m) :
         /\ \A i \in 1..m : c[i] = stack[i + 1].ref
         /\ Ref \in Strings(IF m = 0 THEN template ELSE value[c[m]].text)
  BY <1>1, <1>2, StackChain
<1>4. CASE status = "deep"
  <2>1. m = MaxDepth
    BY <1>2, <1>4 DEF IInv, ChainTrue
  <2>2. c \in ChainsFrom(template, m)
    BY DEF Chains
  <2>3. LeadsTo(template, m + 1, Ref)
    BY <1>2, <1>3, <2>2, ChainAppend
  <2> QED
    BY <2>1, <2>3 DEF Chains, LeadsTo
<1>5. CASE status = "cycle"
  <2>1. PICK k \in 2..Len(stack) : stack[k].ref = Ref
    BY <1>5 DEF IInv, ChainTrue, InChain
  <2> DEFINE K == {stack[j].ref : j \in k..Len(stack)}
             A == {n \in Nat : \E d \in Chains(m + n) : d[m + n] \in K}
  <2>2. ASSUME NEW p \in K PROVE \E q \in K : q \in Strings(value[p].text)
    <3>1. PICK j \in k..Len(stack) : p = stack[j].ref
      OBVIOUS
    <3>2. j - 1 \in 1..m /\ (j - 1) + 1 = j /\ j \in 2..Len(stack)
      BY <1>2, <2>1
    <3>3. CASE j = Len(stack)
      <4>1. m # 0 /\ m \in 1..m /\ c[m] = p
        BY <1>2, <1>3, <3>1, <3>2, <3>3
      <4>2. Ref \in Strings(value[p].text)
        BY <1>3, <4>1
      <4>3. Ref \in K
        BY <2>1
      <4> QED
        BY <4>2, <4>3
    <3>4. CASE j # Len(stack)
      <4>1. j + 1 \in 2..Len(stack) /\ (j + 1) - 1 = j /\ j + 1 \in k..Len(stack)
            /\ j \in 1..Len(stack)
        BY <1>2, <3>2, <3>4
      <4>2. /\ Leads(stack[j + 1].ref, "string")
            /\ stack[j].at <= Len(stack[j].text)
            /\ stack[j].text[stack[j].at].ref = stack[j + 1].ref
        BY <4>1 DEF IInv, ChainTrue, Leads
      <4>3. stack[j].text = value[p].text
        BY <3>1, <3>2 DEF IInv, ChainTrue
      <4>4. stack[j].at \in 1..Len(stack[j].text)
        <5>1. stack[j].at \in Nat /\ stack[j].at >= 1
          <6>1. stack[j].at \in 1..Len(stack[j].text) + 1
            BY <4>1 DEF IInv, StackSettled
          <6> QED
            BY <6>1
        <5>2. stack \in Seq(Frames)
          BY DEF IInv, TypeOK, Frames
        <5>3. stack[j] \in Frames
          BY <4>1, <5>2
        <5>4. Len(stack[j].text) \in Nat
          BY <5>3 DEF Frames
        <5> QED
          BY <4>2, <5>1, <5>4
      <4>5. stack[j + 1].ref \in Strings(value[p].text)
        BY <4>2, <4>3, <4>4, StringAt
      <4> QED
        BY <4>1, <4>5
    <3> QED
      BY <3>3, <3>4
  <2>3. 0 \in A
    <3>1. m \in 1..m /\ Len(stack) \in k..Len(stack)
      BY <1>2, <2>1
    <3>2. c[m] = stack[Len(stack)].ref
      BY <1>2, <1>3, <3>1
    <3>3. c[m] \in K
      BY <3>1, <3>2
    <3> QED
      BY <1>2, <3>3
  <2>4. ASSUME NEW n \in Nat, n \in A PROVE n + 1 \in A
    <3>1. PICK d \in Chains(m + n) : d[m + n] \in K
      BY <2>4
    <3>2. PICK q \in K : q \in Strings(value[d[m + n]].text)
      <4> HIDE DEF K
      <4> QED
        BY <2>2, <3>1
    <3>3. m + n \in Nat /\ m + n # 0 /\ (m + n) + 1 = m + (n + 1)
      BY <1>2, <2>1
    <3>4. d \in ChainsFrom(template, m + n)
      BY DEF Chains
    <3>5. q \in Strings(IF m + n = 0 THEN template ELSE value[d[m + n]].text)
      BY <3>2, <3>3
    <3>6. LeadsTo(template, (m + n) + 1, q)
      <4> HIDE DEF K, A
      <4> QED
        BY <3>3, <3>4, <3>5, ChainAppend
    <3>7. PICK e \in ChainsFrom(template, (m + n) + 1) : e[(m + n) + 1] = q
      BY <3>6 DEF LeadsTo
    <3>8. e \in Chains(m + (n + 1)) /\ e[m + (n + 1)] \in K
      BY <3>3, <3>7 DEF Chains
    <3> QED
      BY <3>8
  <2> HIDE DEF A, K
  <2>5. Nat \subseteq A
    BY <2>3, <2>4, NatSetInduction
  <2>6. MaxDepth + 1 - m \in Nat /\ m + (MaxDepth + 1 - m) = MaxDepth + 1
    BY <1>2
  <2>7. MaxDepth + 1 - m \in A
    BY <2>5, <2>6
  <2> QED
    BY <2>6, <2>7 DEF A
<1> QED
  BY <1>4, <1>5

-----------------------------------------------------------------------------
(* What has been read is within the limit, what is expanded is reached.    *)

\* The values do not change, and so the chains do not.
LEMMA ChainsSame ==
  ASSUME value' = value
  PROVE  \A text, n : ChainsFrom(text, n)' = ChainsFrom(text, n)
BY DEF ChainsFrom, Strings, SlotsOf, Leads

\* What leads nowhere too deep never will.
LEMMA ShallowKept ==
  ASSUME value' = value
  PROVE  \A slot, k : Shallow(slot, k) => Shallow(slot, k)'
BY ChainsSame DEF Shallow, Leads

\* A text whose strings lead nowhere too deep does not either, one level up.
LEMMA ShallowText ==
  ASSUME NEW text, NEW k \in 1..(MaxDepth + 1),
         \A i \in 1..Len(text) : Shallow(text[i], k)
  PROVE  ChainsFrom(text, MaxDepth + 2 - k) = {}
<1> DEFINE n == MaxDepth + 1 - k
<1>1. n \in Nat /\ MaxDepth + 2 - k = n + 1
  OBVIOUS
<1>2. \A p \in Strings(text) : ChainsFrom(value[p].text, n) = {}
  BY DEF Strings, SlotsOf, Shallow
<1> HIDE DEF n
<1>3. ChainsFrom(text, n + 1) = {}
  BY <1>1, <1>2, ChainRest
<1> QED
  BY <1>1, <1>3

\* A text is read on at a reference that is no string.
LEMMA ShallowAdvance ==
  ASSUME IInv, WithinLimit, More, Advance, value' = value, ~Leads(Slot.ref, "string")
  PROVE  WithinLimit'
<1>1. /\ Len(stack) \in Nat /\ Len(stack) >= 1 /\ TypeOK /\ Current = stack[Len(stack)]
  BY Reading
<1>2. /\ Len(stack') = Len(stack)
      /\ \A k \in 1..Len(stack) : stack'[k].text = stack[k].text
      /\ \A k \in 1..(Len(stack) - 1) : stack'[k].at = stack[k].at
      /\ stack'[Len(stack)].at = stack[Len(stack)].at + 1
  BY <1>1, Advanced
<1>3. ASSUME NEW k \in 1..Len(stack), NEW i \in 1..(stack'[k].at - 1),
             NEW slot, slot = stack'[k].text[i]
      PROVE  Shallow(slot, k)'
  <2>1. slot = stack[k].text[i]
    BY <1>2, <1>3
  <2>2. CASE i \in 1..(stack[k].at - 1)
    BY <2>1, <2>2, ShallowKept DEF WithinLimit
  <2>3. CASE k = Len(stack) /\ i = stack[k].at
    <3>1. slot = Slot
      BY <1>1, <2>1, <2>3 DEF Slot
    <3> QED
      BY <3>1 DEF Shallow, Leads
  <2>4. stack[k].at \in Nat
    BY DEF IInv, StackSettled
  <2>5. k = Len(stack) \/ k \in 1..(Len(stack) - 1)
    BY <1>1
  <2> QED
    BY <1>2, <2>2, <2>3, <2>4, <2>5
<1> QED
  BY <1>2, <1>3 DEF WithinLimit

\* Of a string that has been entered nothing is read.
LEMMA ShallowEnter ==
  ASSUME IInv, WithinLimit, Enter
  PROVE  WithinLimit'
<1>1. Len(stack) \in Nat /\ Len(stack) >= 1 /\ TypeOK /\ value' = value
  BY Reading DEF Enter
<1>2. /\ Len(stack') = Len(stack) + 1
      /\ \A k \in 1..Len(stack) : stack'[k] = stack[k]
      /\ stack'[Len(stack) + 1].at = 1
  BY <1>1, Entered DEF Frame
<1>3. ASSUME NEW k \in 1..(Len(stack) + 1), NEW i \in 1..(stack'[k].at - 1),
             NEW slot, slot = stack'[k].text[i]
      PROVE  Shallow(slot, k)'
  <2>1. CASE k = Len(stack) + 1
    BY <1>2, <2>1
  <2>2. CASE k \in 1..Len(stack)
    BY <1>1, <1>2, <1>3, <2>2, ShallowKept DEF WithinLimit
  <2> QED
    BY <1>1, <2>1, <2>2
<1> QED
  BY <1>2, <1>3 DEF WithinLimit

\* The value that is left is shallow enough for the text that named it.
LEMMA ShallowLeave ==
  ASSUME IInv, WithinLimit, Leave
  PROVE  WithinLimit'
<1> DEFINE n == Len(stack) - 1
<1>1. /\ n \in Nat /\ n >= 1 /\ Len(stack) = n + 1 /\ n + 1 <= MaxDepth + 1
      /\ TypeOK /\ value' = value /\ Current = stack[n + 1]
  BY DEF Leave, IInv, TypeOK, Nested, ChainTrue, Current
<1>2. /\ Len(stack') = n
      /\ \A k \in 1..n : stack'[k].text = stack[k].text
      /\ \A k \in 1..(n - 1) : stack'[k].at = stack[k].at
      /\ stack'[n].at = stack[n].at + 1
  <2>1. Len(stack) - 2 = n - 1
    BY <1>1
  <2> QED
    BY <1>1, <2>1, Left
<1> HIDE DEF n
<1>3. /\ stack[n].text[stack[n].at].ref = stack[n + 1].ref
      /\ stack[n + 1].text = value[stack[n + 1].ref].text
  <2>1. n + 1 \in 2..Len(stack) /\ (n + 1) - 1 = n
    BY <1>1
  <2> QED
    BY <2>1 DEF IInv, ChainTrue
<1>4. \A i \in 1..Len(stack[n + 1].text) : Shallow(stack[n + 1].text[i], n + 1)
  <2>1. n + 1 \in 1..Len(stack)
    BY <1>1
  <2>2. stack[n + 1].at > Len(stack[n + 1].text) /\ stack[n + 1].at \in Nat
        /\ Len(stack[n + 1].text) \in Nat
    <3>1. stack \in Seq(Frames)
      BY <1>1 DEF TypeOK, Frames
    <3>2. stack[n + 1] \in Frames
      BY <2>1, <3>1
    <3>3. stack[n + 1].at \in Nat /\ stack[n + 1].text \in Seq(Slots)
      BY <3>2 DEF Frames
    <3> QED
      BY <1>1, <3>3 DEF Leave
  <2> QED
    BY <2>1, <2>2 DEF WithinLimit
<1>5. ChainsFrom(stack[n + 1].text, MaxDepth + 1 - n) = {}
  <2>1. n + 1 \in 1..(MaxDepth + 1) /\ MaxDepth + 2 - (n + 1) = MaxDepth + 1 - n
    BY <1>1
  <2> QED
    BY <1>4, <2>1, ShallowText
<1>6. Shallow(stack[n].text[stack[n].at], n)
  BY <1>3, <1>5 DEF Shallow
<1>7. ASSUME NEW k \in 1..n, NEW i \in 1..(stack'[k].at - 1),
             NEW slot, slot = stack'[k].text[i]
      PROVE  Shallow(slot, k)'
  <2>1. slot = stack[k].text[i] /\ k \in 1..Len(stack)
    BY <1>1, <1>2, <1>7
  <2>2. CASE i \in 1..(stack[k].at - 1)
    BY <1>1, <2>1, <2>2, ShallowKept DEF WithinLimit
  <2>3. CASE k = n /\ i = stack[n].at
    BY <1>1, <1>6, <2>1, <2>3, ShallowKept
  <2>4. stack[k].at \in Nat
    BY <2>1 DEF IInv, StackSettled
  <2>5. k = n \/ k \in 1..(n - 1)
    BY <1>1
  <2> QED
    BY <1>2, <2>2, <2>3, <2>4, <2>5
<1> QED
  BY <1>2, <1>7 DEF WithinLimit

\* No step reads past a reference that leads too deep.
LEMMA WithinLimitStep ==
  ASSUME IInv, WithinLimit, [Next]_vars
  PROVE  WithinLimit'
<1>1. CASE Copy
  <2>1. More /\ Advance /\ value' = value /\ Ref = Slot.ref
    BY <1>1, Reading DEF Copy
  <2>2. ~Leads(Slot.ref, "string")
    BY <1>1, <2>1 DEF Copy, Kept, Leads
  <2> QED
    BY <2>1, <2>2, ShallowAdvance
<1>2. CASE Skip \/ Miss
  <2>1. More /\ Advance /\ value' = value /\ Ref = Slot.ref /\ Unfound(Ref)
    BY <1>2, Reading DEF Skip, Miss
  <2>2. ~Leads(Slot.ref, "string")
    BY <2>1 DEF Unfound, Leads
  <2> QED
    BY <2>1, <2>2, ShallowAdvance
<1>3. CASE Enter
  BY <1>3, ShallowEnter
<1>4. CASE Leave
  BY <1>4, ShallowLeave
<1>5. CASE UNCHANGED <<stack, value>>
  BY <1>5, ShallowKept DEF WithinLimit
<1> QED
  BY <1>1, <1>2, <1>3, <1>4, <1>5 DEF Next, Cycle, Deep, Stop, Finish, vars

\* A value that is expanded was on the stack, the end of a chain.
LEMMA ReachedStep ==
  ASSUME IInv, Reached, [Next]_vars
  PROVE  Reached'
<1>1. \A n : Chains(n)' = Chains(n)
  <2>1. value' = value /\ template' = template
    BY DEF Next, Copy, Skip, Miss, Cycle, Deep, Stop, Enter, Leave, Finish, vars
  <2> QED
    BY <2>1, ChainsSame DEF Chains
<1>2. CASE Leave
  <2> DEFINE m == Len(stack) - 1
  <2>1. m \in Nat /\ Len(stack) = m + 1 /\ m \in 1..MaxDepth /\ m \in 1..m
        /\ Current.ref = stack[m + 1].ref
    BY <1>2 DEF Leave, IInv, TypeOK, Nested, ChainTrue, Current
  <2> HIDE DEF m
  <2>2. PICK c \in Chains(m) : \A i \in 1..m : c[i] = stack[i + 1].ref
    BY <2>1, StackChain
  <2>3. c[m] = Current.ref
    BY <2>1, <2>2
  <2>4. expanded' = expanded \cup {Current.ref}
    BY <1>2 DEF Leave
  <2> QED
    BY <1>1, <2>1, <2>3, <2>4 DEF Reached
<1>3. CASE UNCHANGED expanded
  BY <1>1, <1>3 DEF Reached
<1> QED
  BY <1>2, <1>3 DEF Next, Copy, Skip, Miss, Cycle, Deep, Stop, Enter, Finish, vars

-----------------------------------------------------------------------------
(* What is copied is what the definition makes of it.                      *)

\* Concatenation, for any sequences.
LEMMA Concats ==
  ASSUME NEW T, NEW a \in Seq(T), NEW b \in Seq(T), NEW c \in Seq(T)
  PROVE  (a \o b) \o c = a \o (b \o c) /\ a \o <<>> = a
<1>1. (a \o b) \o c = a \o (b \o c)
  OBVIOUS
<1>2. a \o <<>> = a
  OBVIOUS
<1> QED
  BY <1>1, <1>2

\* A stack as the invariant has it.
Readable(st) ==
    /\ st \in Seq(Frames)
    /\ Len(st) \in 1..(MaxDepth + 1)
    /\ \A k \in 1..Len(st) : st[k].at \in 1..(Len(st[k].text) + 1)

\* The stack of the invariant is such a stack.
LEMMA StackReadable == IInv => Readable(stack) /\ value \in [Dotted -> Values]
<1> SUFFICES ASSUME IInv PROVE Readable(stack) /\ value \in [Dotted -> Values]
  OBVIOUS
<1>1. /\ stack \in Seq(Frames) /\ value \in [Dotted -> Values]
      /\ Len(stack) \in Nat /\ Len(stack) >= 1 /\ Len(stack) <= MaxDepth + 1
  BY SMTT(30) DEF IInv, TypeOK, Frames, StackSettled, ChainTrue
<1>2. \A k \in 1..Len(stack) : stack[k].at \in 1..(Len(stack[k].text) + 1)
  BY DEF IInv, StackSettled
<1> QED
  BY <1>1, <1>2 DEF Readable

\* What the definition makes of each text on a stack, up to where it is.
Parts(val, st) == [k \in 1..Len(st) |-> SoFar(val, k, st[k])]

\* What a text has given is a sequence of names.
LEMMA SoFarType ==
  ASSUME NEW val \in [Dotted -> Values], NEW k \in 1..(MaxDepth + 1),
         NEW f \in Frames, f.at \in 1..(Len(f.text) + 1)
  PROVE  SoFar(val, k, f) \in Seq(Names)
<1> DEFINE n == MaxDepth + 1 - k
           p == Pieces(val, n, Inner(val, n), f.text)
<1>1. n \in Nat /\ f.text \in Seq(Slots) /\ Len(f.text) \in Nat
  BY DEF Frames
<1> HIDE DEF n
<1>2. Inner(val, n) \in Texts
  BY <1>1, ExpansionStep
<1>3. p \in Seq(Seq(Names)) /\ Len(p) = Len(f.text)
  BY <1>1, <1>2, PiecesType
<1> HIDE DEF p
<1>4. f.at - 1 \in 0..Len(p)
  BY <1>1, <1>3
<1>5. Joined(p)[f.at - 1] \in Seq(Names)
  BY <1>3, <1>4, JoinedStep
<1> QED
  BY <1>5 DEF SoFar, n, p

\* One reference further, its piece is added.
LEMMA SoFarNext ==
  ASSUME NEW val \in [Dotted -> Values], NEW k \in 1..(MaxDepth + 1),
         NEW f \in Frames, f.at \in 1..Len(f.text),
         NEW g, g.text = f.text, g.at = f.at + 1
  PROVE  LET n == MaxDepth + 1 - k
         IN  /\ Piece(val, n, Inner(val, n), f.text[f.at]) \in Seq(Names)
             /\ SoFar(val, k, g)
                   = SoFar(val, k, f) \o Piece(val, n, Inner(val, n), f.text[f.at])
<1> DEFINE n == MaxDepth + 1 - k
           p == Pieces(val, n, Inner(val, n), f.text)
<1>1. /\ n \in Nat /\ f.text \in Seq(Slots) /\ Len(f.text) \in Nat
      /\ f.at \in Nat /\ g.at - 1 = f.at /\ f.text[f.at] \in Slots
  BY DEF Frames
<1> HIDE DEF n
<1>2. Inner(val, n) \in Texts
  BY <1>1, ExpansionStep
<1>3. /\ p \in Seq(Seq(Names)) /\ Len(p) = Len(f.text)
      /\ p[f.at] = Piece(val, n, Inner(val, n), f.text[f.at])
  BY <1>1, <1>2, PiecesType
<1>4. Piece(val, n, Inner(val, n), f.text[f.at]) \in Seq(Names)
  BY <1>1, <1>2, PieceType
<1> HIDE DEF p
<1>5. Joined(p)[f.at] = Joined(p)[f.at - 1] \o p[f.at]
  BY <1>3, JoinedStep
<1>6. SoFar(val, k, f) = Joined(p)[f.at - 1]
  BY DEF SoFar, n, p
<1>7. SoFar(val, k, g) = Joined(p)[f.at]
  BY <1>1 DEF SoFar, n, p
<1>8. SoFar(val, k, g) = SoFar(val, k, f) \o Piece(val, n, Inner(val, n), f.text[f.at])
  BY <1>3, <1>5, <1>6, <1>7, Zenon
<1> QED
  BY <1>4, <1>8 DEF n

\* A text of which nothing is read has given nothing.
LEMMA SoFarNothing ==
  ASSUME NEW val \in [Dotted -> Values], NEW k \in 1..(MaxDepth + 1),
         NEW f \in Frames, f.at = 1
  PROVE  SoFar(val, k, f) = <<>>
<1> DEFINE n == MaxDepth + 1 - k
           p == Pieces(val, n, Inner(val, n), f.text)
<1>1. n \in Nat /\ f.text \in Seq(Slots) /\ f.at - 1 = 0
  BY DEF Frames
<1> HIDE DEF n
<1>2. Inner(val, n) \in Texts
  BY <1>1, ExpansionStep
<1>3. p \in Seq(Seq(Names))
  BY <1>1, <1>2, PiecesType
<1> HIDE DEF p
<1>4. Joined(p)[0] = <<>>
  BY <1>3, JoinedStep
<1> QED
  BY <1>1, <1>4 DEF SoFar, n, p

\* A text that is read to its end has given what it becomes.
LEMMA SoFarAll ==
  ASSUME NEW val \in [Dotted -> Values], NEW k \in 1..(MaxDepth + 1),
         NEW f \in Frames, f.at = Len(f.text) + 1
  PROVE  SoFar(val, k, f) = Expansion(val)[MaxDepth + 1 - k][f.text]
<1> DEFINE n == MaxDepth + 1 - k
<1>1. n \in Nat /\ f.text \in Seq(Slots) /\ f.at - 1 = Len(f.text)
  BY DEF Frames
<1> HIDE DEF n
<1>2. Expansion(val)[n] = Level(val, n, Inner(val, n))
  BY <1>1, ExpansionStep
<1>3. Level(val, n, Inner(val, n))[f.text]
         = Joined(Pieces(val, n, Inner(val, n), f.text))[Len(f.text)]
  BY <1>1, Zenon DEF Level
<1> QED
  BY <1>1, <1>2, <1>3 DEF SoFar, n

\* The parts are sequences of names, one for each text on the stack.
LEMMA PartsType ==
  ASSUME NEW val \in [Dotted -> Values], NEW st, Readable(st)
  PROVE  /\ Parts(val, st) \in Seq(Seq(Names)) /\ Len(Parts(val, st)) = Len(st)
         /\ \A k \in 1..Len(st) : Parts(val, st)[k] = SoFar(val, k, st[k])
<1>1. \A k \in 1..Len(st) : /\ k \in 1..(MaxDepth + 1)
                            /\ st[k] \in Frames /\ st[k].at \in 1..(Len(st[k].text) + 1)
  BY DEF Readable
<1>2. \A k \in 1..Len(st) : SoFar(val, k, st[k]) \in Seq(Names)
  BY <1>1, SoFarType
<1>3. Len(st) \in Nat
  BY DEF Readable
<1> QED
  BY <1>2, <1>3 DEF Parts

\* The text whose next reference is dealt with gives its piece.
LEMMA CopiedAdvance ==
  ASSUME IInv, IInv', Copied, More, Advance, value' = value,
         LET n == MaxDepth + 1 - Len(stack)
         IN  out' = out \o Piece(value, n, Inner(value, n), Slot)
  PROVE  Copied'
<1> DEFINE m == Len(stack)
           n == MaxDepth + 1 - m
           piece == Piece(value, n, Inner(value, n), Slot)
           P == Parts(value, stack)
           Q == Parts(value, stack')
<1>1. /\ Readable(stack) /\ Readable(stack') /\ value \in [Dotted -> Values]
  <2>1. (IInv => Readable(stack))'
    BY StackReadable, PTL
  <2> QED
    BY <2>1, StackReadable
<1>2. /\ TypeOK /\ m \in 1..m /\ m \in 1..(MaxDepth + 1) /\ m - 1 \in 0..m
      /\ stack[m] \in Frames
  BY <1>1, Reading DEF Readable
<1>3. Slot = stack[m].text[stack[m].at] /\ stack[m].at \in 1..Len(stack[m].text)
  <2>1. Current = stack[m] /\ stack[m].at <= Len(stack[m].text) /\ stack[m].at >= 1
    BY <1>1, <1>2, Reading DEF Readable, More
  <2>2. stack[m].at \in Nat /\ Len(stack[m].text) \in Nat
    BY <1>2 DEF Frames
  <2> QED
    BY <2>1, <2>2 DEF Slot
<1>4. /\ Len(stack') = m
      /\ \A k \in 1..m : stack'[k].text = stack[k].text
      /\ \A k \in 1..(m - 1) : stack'[k].at = stack[k].at
      /\ stack'[m].at = stack[m].at + 1
  BY <1>2, Advanced
<1>5. /\ P \in Seq(Seq(Names)) /\ Len(P) = m
      /\ \A k \in 1..m : P[k] = SoFar(value, k, stack[k])
  BY <1>1, PartsType
<1>6. /\ Q \in Seq(Seq(Names)) /\ Len(Q) = m
      /\ \A k \in 1..m : Q[k] = SoFar(value, k, stack'[k])
  BY <1>1, <1>4, PartsType
<1>7. out = Joined(P)[m]
  BY DEF Copied, Parts
<1>8. out' = out \o piece
  OBVIOUS
<1> HIDE DEF P, Q
<1>9. piece \in Seq(Names) /\ Q[m] = P[m] \o piece
  <2>1. stack'[m].text = stack[m].text /\ Q[m] = SoFar(value, m, stack'[m])
        /\ P[m] = SoFar(value, m, stack[m])
    BY <1>2, <1>4, <1>5, <1>6
  <2>2. /\ piece \in Seq(Names)
        /\ SoFar(value, m, stack'[m]) = SoFar(value, m, stack[m]) \o piece
    <3> DEFINE f == stack[m]
               g == stack'[m]
    <3>1. /\ m \in 1..(MaxDepth + 1) /\ f \in Frames /\ f.at \in 1..Len(f.text)
          /\ g.text = f.text /\ g.at = f.at + 1
      BY <1>2, <1>3, <1>4, <2>1
    <3> HIDE DEF f, g, m
    <3>2. /\ Piece(value, n, Inner(value, n), f.text[f.at]) \in Seq(Names)
          /\ SoFar(value, m, g)
                = SoFar(value, m, f) \o Piece(value, n, Inner(value, n), f.text[f.at])
      BY <1>1, <3>1, SoFarNext
    <3> QED
      BY <1>3, <3>2, Zenon DEF f, g
  <2> QED
    BY <2>1, <2>2
<1> HIDE DEF m, n, piece
<1>10. m - 1 \in Nat /\ m - 1 <= m /\ \A k \in 1..(m - 1) : k \in 1..m
  BY <1>2
<1>11. \A k \in 1..(m - 1) : P[k] = Q[k]
  BY ZenonT(40), <1>4, <1>5, <1>6, <1>10 DEF SoFar
<1>12. Joined(P)[m - 1] = Joined(Q)[m - 1]
  <2> DEFINE h == m - 1
  <2>1. h \in Nat /\ h <= Len(P) /\ h <= Len(Q) /\ \A k \in 1..h : P[k] = Q[k]
    BY <1>5, <1>6, <1>10, <1>11
  <2> HIDE DEF h
  <2>2. Joined(P)[h] = Joined(Q)[h]
    BY <1>5, <1>6, <2>1, JoinedAgree
  <2> QED
    BY <2>2 DEF h
<1>13. Joined(P)[m] = Joined(P)[m - 1] \o P[m] /\ Joined(Q)[m] = Joined(Q)[m - 1] \o Q[m]
  BY <1>2, <1>5, <1>6, JoinedStep
<1>14. Joined(P)[m - 1] \in Seq(Names) /\ P[m] \in Seq(Names)
  <2>1. m - 1 \in 0..Len(P) /\ m \in 1..Len(P)
    BY <1>2, <1>5
  <2>2. P[m] \in Seq(Names)
    BY <1>5, <2>1
  <2> QED
    BY <1>5, <2>1, <2>2, JoinedStep
<1>15. (Joined(P)[m - 1] \o P[m]) \o piece = Joined(P)[m - 1] \o (P[m] \o piece)
  <2> DEFINE a == Joined(P)[m - 1]
             b == P[m]
  <2>1. a \in Seq(Names) /\ b \in Seq(Names)
    BY <1>14
  <2> HIDE DEF a, b
  <2>2. (a \o b) \o piece = a \o (b \o piece)
    BY SMTT(30), <1>9, <2>1, Concats
  <2> QED
    BY <2>2 DEF a, b
<1>16. out' = Joined(Q)[m]
  BY <1>7, <1>8, <1>9, <1>12, <1>13, <1>15, Zenon
<1> QED
  BY <1>4, <1>16 DEF Copied, Q, Parts

\* A reference that is copied becomes itself.
LEMMA CopyPiece ==
  ASSUME IInv, Copy, NEW inner
  PROVE  Piece(value, MaxDepth + 1 - Len(stack), inner, Slot) = <<Ref>>
<1>1. /\ Ref = Slot.ref /\ Len(stack) \in Nat /\ Len(stack) >= 1
      /\ Kept \/ Ref \in Flat \/ Leads(Ref, "literal")
  BY Reading DEF Copy
<1>2. CASE Kept
  <2>1. Slot.ref \notin Dotted /\ MaxDepth + 1 - Len(stack) # MaxDepth
    BY <1>1, <1>2 DEF Kept, Nested
  <2> QED
    BY <1>1, <2>1 DEF Piece
<1>3. CASE Ref \in Flat
  <2>1. Slot.ref \notin Dotted /\ Slot.ref \notin Markers
    BY <1>1, <1>3
  <2> QED
    BY <1>1, <2>1 DEF Piece
<1>4. CASE Leads(Ref, "literal")
  <2>1. Slot.ref \in Dotted /\ value[Slot.ref].kind = "literal"
    BY <1>1, <1>4 DEF Leads
  <2> QED
    BY <1>1, <2>1 DEF Piece
<1> QED
  BY <1>1, <1>2, <1>3, <1>4

\* A reference that leads nowhere becomes nothing.
LEMMA UnfoundPiece ==
  ASSUME IInv, More, Unfound(Ref), ~Kept, NEW inner
  PROVE  Piece(value, MaxDepth + 1 - Len(stack), inner, Slot) = <<>>
<1>1. Ref = Slot.ref /\ Len(stack) \in Nat /\ Len(stack) >= 1
  BY Reading
<1>2. CASE Ref \in Markers
  <2>1. Slot.ref \notin Dotted /\ MaxDepth + 1 - Len(stack) = MaxDepth
    BY <1>1, <1>2 DEF Kept, Nested
  <2> QED
    BY <1>1, <1>2, <2>1 DEF Piece
<1>3. CASE Leads(Ref, "missing")
  <2>1. Slot.ref \in Dotted /\ value[Slot.ref].kind = "missing"
    BY <1>1, <1>3 DEF Leads
  <2> QED
    BY <1>1, <2>1 DEF Piece
<1> QED
  BY <1>2, <1>3 DEF Unfound

\* Nothing is copied of a string that has just been entered.
LEMMA CopiedEnter ==
  ASSUME IInv, IInv', Copied, Enter
  PROVE  Copied'
<1> DEFINE m == Len(stack)
           P == Parts(value, stack)
           Q == Parts(value, stack')
<1>1. Readable(stack) /\ Readable(stack') /\ value \in [Dotted -> Values]
  <2>1. (IInv => Readable(stack))'
    BY StackReadable, PTL
  <2> QED
    BY <2>1, StackReadable
<1>2. TypeOK /\ m \in Nat /\ m >= 1 /\ value' = value /\ out' = out
  BY Reading DEF Enter
<1>3. /\ Len(stack') = m + 1
      /\ \A k \in 1..m : stack'[k] = stack[k]
      /\ stack'[m + 1].at = 1
  BY <1>2, Entered DEF Frame
<1>4. /\ P \in Seq(Seq(Names)) /\ Len(P) = m
      /\ \A k \in 1..m : P[k] = SoFar(value, k, stack[k])
  BY <1>1, PartsType
<1>5. /\ Q \in Seq(Seq(Names)) /\ Len(Q) = m + 1
      /\ \A k \in 1..(m + 1) : Q[k] = SoFar(value, k, stack'[k])
  BY <1>1, <1>3, PartsType
<1>6. out = Joined(P)[m]
  BY DEF Copied, Parts
<1> HIDE DEF m, P, Q
<1>7. Q[m + 1] = <<>>
  <2>1. m + 1 \in 1..(MaxDepth + 1) /\ stack'[m + 1] \in Frames /\ m + 1 \in 1..(m + 1)
    BY <1>1, <1>2, <1>3 DEF Readable
  <2>2. SoFar(value, m + 1, stack'[m + 1]) = <<>>
    BY <1>1, <1>3, <2>1, SoFarNothing
  <2> QED
    BY <1>5, <2>1, <2>2
<1>8. \A k \in 1..m : P[k] = Q[k]
  <2>1. \A k \in 1..m : k \in 1..(m + 1)
    BY <1>2
  <2> QED
    BY <1>3, <1>4, <1>5, <2>1
<1>9. Joined(P)[m] = Joined(Q)[m]
  <2>1. m <= Len(P) /\ m <= Len(Q) /\ P \in Seq(Seq(Names)) /\ Q \in Seq(Seq(Names))
    BY <1>2, <1>4, <1>5
  <2> QED
    BY <1>2, <1>8, <2>1, JoinedAgree
<1>10. Joined(Q)[m + 1] = Joined(Q)[m] \o Q[m + 1]
  <2>1. m + 1 \in 1..Len(Q) /\ (m + 1) - 1 = m
    BY <1>2, <1>5
  <2>2. Joined(Q)[m + 1] = Joined(Q)[(m + 1) - 1] \o Q[m + 1]
    BY <1>5, <2>1, JoinedStep
  <2> QED
    BY <2>1, <2>2
<1>11. Joined(Q)[m] \o <<>> = Joined(Q)[m]
  <2>1. m \in 0..Len(Q)
    BY <1>2, <1>5
  <2>2. Joined(Q)[m] \in Seq(Names)
    BY <1>5, <2>1, JoinedStep
  <2> QED
    BY <2>2, Concats
<1>12. out' = Joined(Q)[m + 1]
  BY <1>2, <1>6, <1>7, <1>9, <1>10, <1>11, Zenon
<1> QED
  BY <1>2, <1>3, <1>12 DEF Copied, Q, Parts

\* What a string has become is the piece of the reference that led to it.
LEMMA LeavePiece ==
  ASSUME IInv, NEW n \in Nat, n >= 1, Len(stack) = n + 1,
         stack[n + 1].at = Len(stack[n + 1].text) + 1
  PROVE  SoFar(value, n + 1, stack[n + 1])
            = Piece(value, MaxDepth + 1 - n, Inner(value, MaxDepth + 1 - n),
                    stack[n].text[stack[n].at])
<1> DEFINE d == MaxDepth - n
           v == stack[n + 1].ref
<1>1. /\ d \in Nat /\ MaxDepth + 1 - n = d + 1 /\ MaxDepth + 1 - (n + 1) = d
      /\ n + 1 \in 1..(MaxDepth + 1) /\ stack[n + 1] \in Frames
      /\ d + 1 # 0 /\ (d + 1) - 1 = d
  BY SMTT(30), StackReadable DEF Readable
<1>2. /\ v \in Dotted /\ value[v].kind = "string" /\ stack[n + 1].text = value[v].text
      /\ stack[n].text[stack[n].at].ref = v
  <2>1. n + 1 \in 2..Len(stack) /\ (n + 1) - 1 = n
    OBVIOUS
  <2> QED
    BY <2>1 DEF IInv, ChainTrue
<1>3. SoFar(value, n + 1, stack[n + 1]) = Expansion(value)[d][value[v].text]
  <2>1. SoFar(value, n + 1, stack[n + 1])
           = Expansion(value)[MaxDepth + 1 - (n + 1)][stack[n + 1].text]
    <3>1. value \in [Dotted -> Values]
      BY StackReadable
    <3> QED
      BY <1>1, <3>1, SoFarAll
  <2> QED
    BY <1>1, <1>2, <2>1
<1>4. Inner(value, d + 1) = Expansion(value)[d]
  BY <1>1 DEF Inner
<1> HIDE DEF d, v
<1>5. Piece(value, d + 1, Inner(value, d + 1), stack[n].text[stack[n].at])
         = Inner(value, d + 1)[value[v].text]
  BY <1>2 DEF Piece
<1> QED
  BY <1>1, <1>3, <1>4, <1>5

\* The value is complete, and what it gave becomes a piece of its reader.
LEMMA CopiedLeave ==
  ASSUME IInv, IInv', Copied, Leave
  PROVE  Copied'
<1> DEFINE n == Len(stack) - 1
           piece == Piece(value, MaxDepth + 1 - n, Inner(value, MaxDepth + 1 - n),
                          stack[n].text[stack[n].at])
           P == Parts(value, stack)
           Q == Parts(value, stack')
<1>1. Readable(stack) /\ Readable(stack') /\ value \in [Dotted -> Values]
  <2>1. (IInv => Readable(stack))'
    BY StackReadable, PTL
  <2> QED
    BY <2>1, StackReadable
<1>2. /\ TypeOK /\ n \in Nat /\ n >= 1 /\ Len(stack) = n + 1 /\ n + 1 <= MaxDepth + 1
      /\ value' = value /\ out' = out /\ Current = stack[n + 1]
      /\ stack[n + 1].at > Len(stack[n + 1].text)
  BY <1>1 DEF Leave, IInv, Nested, Current, Readable
<1>3. /\ Len(stack') = n
      /\ \A k \in 1..n : stack'[k].text = stack[k].text
      /\ \A k \in 1..(n - 1) : stack'[k].at = stack[k].at
      /\ stack'[n].at = stack[n].at + 1
  <2>1. Len(stack) - 2 = n - 1
    BY <1>2
  <2> QED
    BY <1>2, <2>1, Left
<1>4. /\ P \in Seq(Seq(Names)) /\ Len(P) = n + 1
      /\ \A k \in 1..(n + 1) : P[k] = SoFar(value, k, stack[k])
  BY <1>1, <1>2, PartsType
<1>5. /\ Q \in Seq(Seq(Names)) /\ Len(Q) = n
      /\ \A k \in 1..n : Q[k] = SoFar(value, k, stack'[k])
  BY <1>1, <1>3, PartsType
<1>6. out = Joined(P)[n + 1]
  BY <1>2 DEF Copied, Parts
<1> HIDE DEF n, P, Q
<1>7. /\ n \in 1..n /\ n \in 1..(n + 1) /\ n + 1 \in 1..(n + 1) /\ (n + 1) - 1 = n
      /\ n \in 1..(MaxDepth + 1) /\ stack[n] \in Frames /\ stack[n + 1] \in Frames
      /\ n - 1 \in Nat /\ n - 1 <= n /\ n - 1 <= n + 1 /\ n - 1 \in 0..n
      /\ \A k \in 1..(n - 1) : k \in 1..n /\ k \in 1..(n + 1)
  BY <1>1, <1>2 DEF Readable
<1>8. P[n + 1] = piece
  <2>1. stack[n + 1].at = Len(stack[n + 1].text) + 1
    <3>1. stack[n + 1].at \in 1..(Len(stack[n + 1].text) + 1)
      BY <1>1, <1>2, <1>7 DEF Readable
    <3>2. Len(stack[n + 1].text) \in Nat
      BY <1>7 DEF Frames
    <3> QED
      BY <1>2, <3>1, <3>2
  <2>2. SoFar(value, n + 1, stack[n + 1]) = piece
    BY <1>2, <2>1, LeavePiece
  <2> QED
    BY <1>4, <1>7, <2>2
<1>9. piece \in Seq(Names) /\ Q[n] = P[n] \o piece
  <2> DEFINE f == stack[n]
             g == stack'[n]
  <2>1. f.at \in 1..Len(f.text)
    <3>1. f.at \in Nat /\ f.at >= 1 /\ Len(f.text) \in Nat
      BY <1>1, <1>2, <1>7 DEF Readable, Frames
    <3>2. n + 1 \in 2..Len(stack)
      BY <1>2
    <3>3. f.at <= Len(f.text)
      BY <1>7, <3>2 DEF IInv, ChainTrue
    <3> QED
      BY <3>1, <3>3
  <2>2. g.text = f.text /\ g.at = f.at + 1 /\ f \in Frames
    BY <1>3, <1>7
  <2>3. P[n] = SoFar(value, n, f) /\ Q[n] = SoFar(value, n, g)
    BY <1>4, <1>5, <1>7
  <2>4. piece = Piece(value, MaxDepth + 1 - n, Inner(value, MaxDepth + 1 - n), f.text[f.at])
    OBVIOUS
  <2> HIDE DEF f, g, piece
  <2>5. /\ Piece(value, MaxDepth + 1 - n, Inner(value, MaxDepth + 1 - n), f.text[f.at])
              \in Seq(Names)
        /\ SoFar(value, n, g) = SoFar(value, n, f)
              \o Piece(value, MaxDepth + 1 - n, Inner(value, MaxDepth + 1 - n), f.text[f.at])
    BY <1>1, <1>7, <2>1, <2>2, SoFarNext
  <2> QED
    BY <2>3, <2>4, <2>5, Zenon
<1> HIDE DEF piece
<1>10. Joined(P)[n - 1] = Joined(Q)[n - 1]
  <2> DEFINE h == n - 1
  <2>1. /\ h \in Nat /\ h <= Len(P) /\ h <= Len(Q) /\ \A k \in 1..h : P[k] = Q[k]
        /\ P \in Seq(Seq(Names)) /\ Q \in Seq(Seq(Names))
    BY ZenonT(40), <1>3, <1>4, <1>5, <1>7 DEF SoFar
  <2> HIDE DEF h
  <2>2. Joined(P)[h] = Joined(Q)[h]
    BY <2>1, JoinedAgree
  <2> QED
    BY <2>2 DEF h
<1>11. /\ Joined(P)[n] = Joined(P)[n - 1] \o P[n]
       /\ Joined(Q)[n] = Joined(Q)[n - 1] \o Q[n]
  BY <1>4, <1>5, <1>7, JoinedStep
<1>12. Joined(P)[n + 1] = Joined(P)[n] \o P[n + 1]
  <2>1. Joined(P)[n + 1] = Joined(P)[(n + 1) - 1] \o P[n + 1]
    BY <1>4, <1>7, JoinedStep
  <2> QED
    BY <1>7, <2>1
<1>13. Joined(P)[n - 1] \in Seq(Names) /\ P[n] \in Seq(Names)
  <2>1. n - 1 \in 0..Len(P) /\ n \in 1..Len(P)
    BY <1>2, <1>4, <1>7
  <2>2. P[n] \in Seq(Names)
    BY <1>4, <2>1
  <2> QED
    BY <1>4, <2>1, <2>2, JoinedStep
<1>14. (Joined(P)[n - 1] \o P[n]) \o piece = Joined(P)[n - 1] \o (P[n] \o piece)
  <2> DEFINE a == Joined(P)[n - 1]
             b == P[n]
  <2>1. a \in Seq(Names) /\ b \in Seq(Names)
    BY <1>13
  <2> HIDE DEF a, b
  <2>2. (a \o b) \o piece = a \o (b \o piece)
    BY <1>9, <2>1, Concats
  <2> QED
    BY <2>2 DEF a, b
<1>15. out' = Joined(Q)[n]
  BY <1>2, <1>6, <1>8, <1>9, <1>10, <1>11, <1>12, <1>14, Zenon
<1> QED
  BY <1>2, <1>3, <1>15 DEF Copied, Q, Parts

\* Every step copies what the definition says, and nothing else.
LEMMA CopiedStep ==
  ASSUME IInv, IInv', Copied, [Next]_vars
  PROVE  Copied'
<1> DEFINE piece == Piece(value, MaxDepth + 1 - Len(stack),
                          Inner(value, MaxDepth + 1 - Len(stack)), Slot)
<1>1. out \in Seq(Names)
  BY DEF IInv, TypeOK, Names
<1>2. CASE Copy
  <2>1. /\ More /\ Advance /\ value' = value /\ out' = Append(out, Ref)
        /\ Ref \in Names
    BY <1>2, Reading DEF Copy, Names
  <2>2. piece = <<Ref>>
    BY <1>2, CopyPiece
  <2>3. Append(out, Ref) = out \o <<Ref>>
    BY <1>1, <2>1
  <2>4. out' = out \o piece
    BY <2>1, <2>2, <2>3, Zenon
  <2> QED
    BY <2>1, <2>4, CopiedAdvance
<1>3. CASE Skip \/ Miss
  <2>1. More /\ Advance /\ value' = value /\ out' = out /\ Unfound(Ref) /\ ~Kept
    BY <1>3 DEF Skip, Miss
  <2>2. piece = <<>>
    BY <2>1, UnfoundPiece
  <2>3. out \o <<>> = out
    BY <1>1, Concats
  <2>4. out' = out \o piece
    BY <2>1, <2>2, <2>3, Zenon
  <2> QED
    BY <2>1, <2>4, CopiedAdvance
<1>4. CASE Enter
  BY <1>4, CopiedEnter
<1>5. CASE Leave
  BY <1>5, CopiedLeave
<1>6. CASE UNCHANGED <<stack, value, out>>
  BY <1>6 DEF Copied, SoFar, Inner
<1> QED
  BY <1>2, <1>3, <1>4, <1>5, <1>6 DEF Next, Cycle, Deep, Stop, Finish, vars

-----------------------------------------------------------------------------
(* The expansion is the one that is defined.                               *)

\* Nothing is read, expanded or copied at the start.
LEMMA InitDefinedInv == Init => DefinedInv
<1> SUFFICES ASSUME Init PROVE DefinedInv
  OBVIOUS
<1>1. IInv
  BY InitIInv
<1>2. /\ Readable(stack) /\ value \in [Dotted -> Values]
      /\ Len(stack) = 1 /\ stack[1].at = 1 /\ out = <<>> /\ expanded = {}
  BY <1>1, StackReadable DEF Init, Frame
<1>3. WithinLimit
  BY <1>2 DEF WithinLimit
<1>4. Reached
  BY <1>2 DEF Reached
<1>5. Copied
  <2> DEFINE P == Parts(value, stack)
  <2>1. /\ P \in Seq(Seq(Names)) /\ Len(P) = 1 /\ P[1] = SoFar(value, 1, stack[1])
    BY <1>2, PartsType
  <2>2. 1 \in 1..(MaxDepth + 1) /\ stack[1] \in Frames
    <3>1. stack \in Seq(Frames) /\ 1 \in 1..Len(stack)
      BY <1>2 DEF Readable
    <3>2. stack[1] \in Frames
      BY <3>1
    <3> QED
      BY <3>2
  <2>3. P[1] = <<>>
    BY <1>2, <2>1, <2>2, SoFarNothing
  <2> HIDE DEF P
  <2>4. 1 \in 1..Len(P) /\ 1 - 1 = 0
    BY <2>1
  <2>5. Joined(P)[0] = <<>> /\ Joined(P)[1] = Joined(P)[1 - 1] \o P[1]
    BY <2>1, <2>4, JoinedStep
  <2>6. Joined(P)[1] = <<>> \o <<>>
    BY <2>3, <2>4, <2>5
  <2>7. Joined(P)[1] = <<>>
    BY <2>6
  <2> QED
    BY <1>2, <2>7 DEF Copied, P, Parts
<1> QED
  BY <1>1, <1>3, <1>4, <1>5 DEF DefinedInv

\* The inductive invariant that relates expand_in's recursion, half-way, to its
\* definition: what has been read is within the limit, what is expanded is reached
\* by a chain, and what is copied is what the texts on the stack become so far.
THEOREM DefinedInvariant == Spec => []DefinedInv
<1>1. Init => DefinedInv
  BY InitDefinedInv
<1>2. DefinedInv /\ [Next]_vars => DefinedInv'
  <2> SUFFICES ASSUME DefinedInv, [Next]_vars PROVE DefinedInv'
    OBVIOUS
  <2>1. IInv /\ IInv'
    BY StepIInv DEF DefinedInv
  <2> QED
    BY <2>1, WithinLimitStep, ReachedStep, CopiedStep DEF DefinedInv
<1> QED
  BY <1>1, <1>2, PTL DEF Spec

\* When the function returns, every chain has been followed to its end.
LEMMA AllExpanded ==
  ASSUME IInv, status \in {"ok", "unresolved"}, NEW n \in Nat, NEW c \in Chains(n)
  PROVE  \A i \in 1..n : c[i] \in expanded
<1> DEFINE A == {i \in Nat : i \in 1..n => c[i] \in expanded}
<1>1. /\ Strings(template) \subseteq expanded
      /\ \A p \in expanded : Strings(value[p].text) \subseteq expanded
  BY AllRead DEF Strings, Settled
<1>2. \A i \in 1..n : c[i] \in Strings(IF i = 1 THEN template ELSE value[c[i - 1]].text)
  BY DEF Chains, ChainsFrom
<1>3. 0 \in A
  OBVIOUS
<1>4. ASSUME NEW i \in Nat, i \in A PROVE i + 1 \in A
  <2>1. CASE i + 1 \in 1..n /\ i = 0
    BY <1>1, <1>2, <2>1
  <2>2. CASE i + 1 \in 1..n /\ i # 0
    <3>1. i \in 1..n /\ i + 1 # 1 /\ (i + 1) - 1 = i
      BY <2>2
    <3>2. c[i] \in expanded /\ c[i + 1] \in Strings(value[c[i]].text)
      BY <1>2, <1>4, <2>2, <3>1
    <3> QED
      BY <1>1, <3>2
  <2> QED
    BY <2>1, <2>2
<1> HIDE DEF A
<1>5. Nat \subseteq A
  BY <1>3, <1>4, NatSetInduction
<1> QED
  BY <1>5 DEF A

\* expand_checked computes what docs/vocabulary.md describes, for any template, any
\* values that refer to each other, and any MAX_DEPTH: it fails for a chain exactly
\* if one is longer than the limit, it expands what the chains reach and no more,
\* and the command is the substitution of all references at once.
THEOREM ExpansionIsDefined == Spec => []ExpandsAsDefined
<1>1. DefinedInv => ExpandsAsDefined
  <2> SUFFICES ASSUME DefinedInv PROVE ExpandsAsDefined
    OBVIOUS
  <2>1. IInv /\ WithinLimit /\ Reached /\ Copied
    BY DEF DefinedInv
  <2>2. ASSUME status \in {"ok", "unresolved"}
        PROVE  /\ Len(stack) = 1 /\ stack[1].at = Len(template) + 1
               /\ stack[1].text = template /\ template \in Seq(Slots)
    BY <2>1, <2>2 DEF IInv, Decided, StackSettled, TypeOK
  <2>3. ASSUME status \in {"ok", "unresolved"} PROVE Chains(MaxDepth + 1) = {}
    <3>1. 1 \in 1..(MaxDepth + 1) /\ MaxDepth + 2 - 1 = MaxDepth + 1
      OBVIOUS
    <3>2. \A i \in 1..Len(template) : Shallow(template[i], 1)
      <4>1. /\ Len(stack) = 1 /\ stack[1].at = Len(template) + 1
            /\ stack[1].text = template /\ Len(template) \in Nat
        BY <2>2, <2>3
      <4>2. 1 \in 1..Len(stack) /\ stack[1].at - 1 = Len(template)
        BY <4>1
      <4> QED
        BY <2>1, <4>1, <4>2 DEF WithinLimit
    <3>3. ChainsFrom(template, MaxDepth + 2 - 1) = {}
      BY <3>1, <3>2, ShallowText
    <3> QED
      BY <3>1, <3>3 DEF Chains
  <2>4. Ended => (status \in {"cycle", "deep"} <=> Chains(MaxDepth + 1) # {})
    <3>1. Ended => status \in {"ok", "unresolved", "cycle", "deep"}
      BY <2>1 DEF IInv, TypeOK, Ended
    <3> QED
      BY <2>1, <2>3, <3>1, TooLong
  <2>5. ASSUME status \in {"ok", "unresolved"}
        PROVE  expanded = UNION {{c[n] : c \in Chains(n)} : n \in 1..MaxDepth}
    <3>1. ASSUME NEW p \in expanded
          PROVE  p \in UNION {{c[n] : c \in Chains(n)} : n \in 1..MaxDepth}
      BY <2>1 DEF Reached
    <3>2. ASSUME NEW n \in 1..MaxDepth, NEW c \in Chains(n)
          PROVE  c[n] \in expanded
      <4>1. n \in Nat /\ n \in 1..n
        OBVIOUS
      <4> QED
        BY <2>1, <2>5, <4>1, AllExpanded
    <3> QED
      BY <3>1, <3>2
  <2>6. ASSUME status \in {"ok", "unresolved"}
        PROVE  out = Expansion(value)[MaxDepth][template]
    <3> DEFINE P == Parts(value, stack)
    <3>1. /\ Readable(stack) /\ value \in [Dotted -> Values]
          /\ 1 \in 1..(MaxDepth + 1) /\ MaxDepth + 1 - 1 = MaxDepth
      BY <2>1, StackReadable
    <3>2. /\ Len(stack) = 1 /\ stack[1].at = Len(stack[1].text) + 1
          /\ stack[1].text = template /\ stack[1] \in Frames
      BY <2>2, <2>6, <3>1 DEF Readable
    <3>3. P \in Seq(Seq(Names)) /\ Len(P) = 1 /\ P[1] = SoFar(value, 1, stack[1])
      BY SMTT(30), <3>1, <3>2, PartsType
    <3>4. out = Joined(P)[1]
      BY <2>1, <3>2 DEF Copied, Parts
    <3> HIDE DEF P
    <3>5. SoFar(value, 1, stack[1]) = Expansion(value)[MaxDepth + 1 - 1][stack[1].text]
      BY <3>1, <3>2, SoFarAll
    <3>6. P[1] = Expansion(value)[MaxDepth][template]
      BY <3>1, <3>2, <3>3, <3>5
    <3>7. Joined(P)[1] = P[1]
      <4>1. 1 \in 1..Len(P) /\ 1 - 1 = 0 /\ P[1] \in Seq(Names)
        BY <3>3
      <4>2. Joined(P)[0] = <<>> /\ Joined(P)[1] = Joined(P)[1 - 1] \o P[1]
        BY <3>3, <4>1, JoinedStep
      <4>3. Joined(P)[1] = <<>> \o P[1]
        BY <4>1, <4>2
      <4>4. <<>> \o P[1] = P[1]
        <5> DEFINE b == P[1]
        <5>1. b \in Seq(Names)
          BY <4>1
        <5> HIDE DEF b
        <5>2. <<>> \o b = b
          BY <5>1
        <5> QED
          BY <5>2 DEF b
      <4> QED
        BY <4>3, <4>4
    <3> QED
      BY <3>4, <3>6, <3>7, Zenon
  <2> QED
    BY <2>4, <2>5, <2>6 DEF ExpandsAsDefined
<1> QED
  BY <1>1, DefinedInvariant, PTL

=============================================================================
