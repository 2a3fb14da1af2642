------------------------------ MODULE MCLaunch ------------------------------
(* Two scenarios, the name of one in the other's, recipes with every kind  *)
(* of step, a group and two VMs.                                           *)
EXTENDS Launch

On(op, place) == [op |-> op, host |-> place]

OpPlace == [vmop |-> "vm", localop |-> "host", gated |-> "vm"]
OpPlaceOf == [x \in {"vmop", "localop", "gated"} |-> OpPlace[x]]

RecipesOfA ==
    {<<>>, <<On("ship-to-vm", "other")>>, <<On("vmop", "host")>>, <<On("localop", "vm")>>,
     <<On("undeclared", "host")>>, <<On("localop", "other"), On("gated", "other")>>}
RecipesOfAB == {<<>>, <<On("localop", "other")>>, <<On("vmop", "other")>>}

NamesWith == [w \in {"a", "ab", "g"} |->
                 CASE w = "a" -> {"a", "ab"} [] w = "ab" -> {"ab"} [] OTHER -> {}]
GroupsOf == [w \in {"a", "ab", "g"} |-> IF w = "g" THEN {"a"} ELSE {"ab"}]

Project(r, t, mode, n, ok) ==
    [recipe |-> r, holds |-> NamesWith, groups |-> GroupsOf, host |-> t,
     parallel |-> [mode |-> mode, n |-> n], valid |-> ok]

Templates == {[ref |-> FALSE, name |-> h] : h \in {NoHost} \cup {CHOOSE h \in Hosts : TRUE}}
             \cup {[ref |-> TRUE, name |-> h] : h \in {NoHost} \cup {CHOOSE h \in Hosts : TRUE}}

AnyProject ==
    {Project(r, t, "number", 0, TRUE) :
        r \in {f \in [{"a", "ab"} -> RecipesOfA \cup RecipesOfAB] :
                  f["a"] \in RecipesOfA /\ f["ab"] \in RecipesOfAB},
        t \in Templates}
    \cup {Project([a |-> <<On("localop", "vm")>>, ab |-> <<On("vmop", "other")>>],
                  [ref |-> TRUE, name |-> NoHost], mode, 30, ok) :
             mode \in {"number", "drive-letters", "other"}, ok \in BOOLEAN}

Plain == [by |-> "run-tests", word |-> NoWord, exact |-> FALSE, list |-> FALSE,
          reset |-> FALSE, flag |-> NoHost, key |-> "none", save |-> FALSE, tty |-> FALSE,
          env |-> NoHost]
AHost == CHOOSE h \in Hosts : \E k \in Hosts : k # h

AnyRequest ==
    {[Plain EXCEPT !.word = w, !.list = l] : w \in {NoWord, "a", "ab", "g"}, l \in BOOLEAN}
    \cup {[Plain EXCEPT !.by = "run-matrix", !.word = w, !.list = l, !.exact = e] :
             w \in {NoWord, "a", "ab", "g"}, l \in BOOLEAN, e \in BOOLEAN}
    \cup {[Plain EXCEPT !.word = "g", !.flag = f, !.reset = x, !.env = e] :
             f \in {NoHost, AHost}, x \in BOOLEAN, e \in {NoHost, AHost}}
    \cup {[Plain EXCEPT !.word = "g", !.save = k, !.tty = ~k, !.reset = ~k, !.env = e] :
             k \in BOOLEAN, e \in {NoHost, AHost}}
    \cup {[Plain EXCEPT !.word = "g", !.flag = f, !.key = k, !.tty = (f = NoHost)] :
             f \in {NoHost, AHost}, k \in {"there", "missing"}}
=============================================================================
