------------------------------ MODULE DigitTries ------------------------------
(***************************************************************************)
(* The crate dlc-trie: how a numeric outcome is cut into digits, how a     *)
(* range of outcomes becomes a list of digit prefixes, and the tries in    *)
(* which the CET and the adaptor signature of a prefix are found.          *)
(*                                                                         *)
(* A path is a sequence of digits, the most significant first.  Oracles,   *)
(* CETs and adaptor signatures are counted from zero, as in the code.  The *)
(* arena of nodes that a DigitTrie and a MultiTrie keep is left out: a     *)
(* node holds its children.  Where the code returns an Option the model    *)
(* returns a sequence, empty for None.                                     *)
(***************************************************************************)
EXTENDS Integers, Sequences, FiniteSets, SequencesExt

-----------------------------------------------------------------------------
(* digit_decomposition.rs                                                  *)

Repeat(d, n) == [i \in 1 .. n |-> d]
Skip(path, n) == SubSeq(path, n + 1, Len(path))
Take(path, n) == SubSeq(path, 1, n)

(* decompose_value, for a value that has at most nbDigits digits.          *)
DecomposeValue(value, base, nbDigits) ==
    [i \in 1 .. nbDigits |-> (value \div base ^ (nbDigits - i)) % base]

ComposeValue(path, base) == FoldLeft(LAMBDA v, d : base * v + d, 0, path)

(* get_common_prefix, and the prefix that take_prefix drains.              *)
CommonPrefix(a, b) ==
    LET same == {i \in 0 .. Len(a) : i =< Len(b) /\ Take(a, i) = Take(b, i)}
    IN Take(a, Max(same))

(* remove_tail: the first digit is kept.                                   *)
RECURSIVE RemoveTail(_, _)
RemoveTail(v, d) ==
    IF Len(v) > 1 /\ Last(v) = d THEN RemoveTail(Front(v), d) ELSE v

Increment(stack) == [stack EXCEPT ![Len(stack)] = @ + 1]

(* The first loop of group_by_ignoring_digits: from the start to the end   *)
(* of its first digit.  The prefixes, and the stack that is left.          *)
RECURSIVE Climb(_, _, _)
Climb(stack, list, base) ==
    CASE Len(stack) = 1 -> [list |-> list, stack |-> stack]
      [] Len(stack) # 1 /\ Last(stack) = base - 1 ->
            Climb(Increment(RemoveTail(Front(stack), base - 1)),
                  Append(list, stack), base)
      [] Len(stack) # 1 /\ Last(stack) = 0 ->
            Climb(RemoveTail(stack, 0), list, base)
      [] OTHER -> Climb(Increment(stack), Append(list, stack), base)

(* The last loop: from the first digit of the end to the end.              *)
RECURSIVE Descend(_, _)
Descend(stack, de) ==
    CASE stack = de -> <<de>>
      [] stack # de /\ Last(stack) = de[Len(stack)] ->
            Descend(Append(stack, 0), de)
      [] OTHER -> <<stack>> \o Descend(Increment(stack), de)

(* The prefixes that cover exactly the outcomes start .. end.              *)
GroupByIgnoringDigits(start, end, base, nbDigits) ==
    LET s == DecomposeValue(start, base, nbDigits)
        e == DecomposeValue(end, base, nbDigits)
        prefix == CommonPrefix(s, e)
        ds == Skip(s, Len(prefix))
        de == Skip(e, Len(prefix))
        stop == RemoveTail(de, base - 1)
        climb == Climb(RemoveTail(ds, 0), <<>>, base)
        between == [i \in 1 .. stop[1] - climb.stack[1] |->
                       <<climb.stack[1] + i - 1>>]
    IN IF ToSet(ds) \subseteq {0} /\ ToSet(de) \subseteq {base - 1}
       THEN <<prefix>>
       ELSE LET list == climb.list \o between \o Descend(<<stop[1]>>, stop)
            IN [i \in DOMAIN list |-> prefix \o list[i]]

-----------------------------------------------------------------------------
(* combination_iterator.rs                                                 *)

NextSelector(selector, nbElements) ==
    LET last == Len(selector)
        i == Max({1} \cup {j \in 2 .. last :
                    selector[j] # nbElements - 1 - (last - j)})
    IN [j \in 1 .. last |->
           IF j < i THEN selector[j] ELSE selector[i] + 1 + (j - i)]

RECURSIVE SelectorsFrom(_, _)
SelectorsFrom(selector, nbElements) ==
    IF selector[1] = nbElements - Len(selector) + 1 THEN <<>>
    ELSE <<selector>> \o
         SelectorsFrom(NextSelector(selector, nbElements), nbElements)

Combinations(nbElements, nbSelected) ==
    SelectorsFrom([i \in 1 .. nbSelected |-> i - 1], nbElements)

(* get_index_for_combination, counted from one; zero when there is none.   *)
CombinationIndex(combination, nbElements) ==
    SelectInSeq(Combinations(nbElements, Len(combination)),
                LAMBDA c : c = combination)

-----------------------------------------------------------------------------
(* digit_trie.rs                                                           *)

NoNode == [kind |-> "None"]

Leaf(path, value) == [kind |-> "Leaf", prefix |-> path, data |-> <<value>>]

Node(path, data, children) ==
    [kind |-> "Node", prefix |-> path, data |-> data, children |-> children]

NoChildren(base) == [d \in 0 .. base - 1 |-> NoNode]

(* insert_internal.  The callback of the code is called once, with what is *)
(* stored at the path; here its answer is given.  That insert panics on an *)
(* empty path is a condition of its users (NoEmptyPath).                   *)
RECURSIVE Insert(_, _, _, _)
Insert(node, path, value, base) ==
    IF node.kind = "None" THEN Leaf(path, value)
    ELSE IF node.prefix = path THEN [node EXCEPT !.data = <<value>>]
    ELSE LET common == CommonPrefix(node.prefix, path)
             suffix == Skip(path, Len(common))
             rest == Skip(node.prefix, Len(common))
         IN CASE rest = <<>> /\ node.kind = "Node" ->
                   [node EXCEPT !.children[suffix[1]] =
                       Insert(@, suffix, value, base)]
              [] rest = <<>> /\ node.kind = "Leaf" ->
                   Node(node.prefix, node.data,
                        [NoChildren(base) EXCEPT ![suffix[1]] =
                            Leaf(suffix, value)])
              [] rest # <<>> ->
                   LET below == [NoChildren(base) EXCEPT
                                    ![rest[1]] = [node EXCEPT !.prefix = rest]]
                   IN IF suffix = <<>> THEN Node(common, <<value>>, below)
                      ELSE Node(common, <<>>,
                                [below EXCEPT ![suffix[1]] =
                                    Leaf(suffix, value)])

(* look_up_internal: what is stored at the prefixes of a path.             *)
RECURSIVE LookUp(_, _)
LookUp(node, path) ==
    IF node.kind = "None" \/ ~IsPrefix(node.prefix, path) THEN <<>>
    ELSE LET own == [i \in DOMAIN node.data |->
                        [path |-> node.prefix, value |-> node.data[i]]]
             suffix == Skip(path, Len(node.prefix))
         IN IF node.kind = "Leaf" \/ suffix = <<>> THEN own
            ELSE LET below == LookUp(node.children[suffix[1]], suffix)
                 IN own \o [i \in DOMAIN below |->
                       [below[i] EXCEPT !.path = node.prefix \o @]]

(* What the callback of insert is given: the data at exactly this path.    *)
Stored(node, path) ==
    LET at == SelectSeq(LookUp(node, path), LAMBDA r : r.path = path)
    IN IF at = <<>> THEN <<>> ELSE at[1].value

(* DigitTrieIter: the stack of nodes with the child that is next, -1 when  *)
(* the node itself has not been visited, and the prefixes above.           *)
NewIter(node) == [stack |-> <<[node |-> node, child |-> -1]>>, prefix |-> <<>>]

Pop(s) == IF s = <<>> THEN s ELSE Front(s)

Yield(it, node) ==
    [it |-> it, res |-> <<[path |-> FlattenSeq(it.prefix) \o node.prefix,
                           value |-> node.data[1]]>>]

(* IterNext is Iterator::next, VisitChildren the loop in it.               *)
RECURSIVE IterNext(_, _), VisitChildren(_, _, _, _)
IterNext(it, base) ==
    IF it.stack = <<>> THEN [it |-> it, res |-> <<>>]
    ELSE LET node == Last(it.stack).node
             child == Last(it.stack).child
             popped == [it EXCEPT !.stack = Front(@)]
         IN CASE node.kind = "None" -> IterNext(popped, base)
              [] node.kind = "Leaf" -> Yield(popped, node)
              [] node.kind = "Node" /\ child >= base ->
                   IterNext([popped EXCEPT !.prefix = Pop(@)], base)
              [] node.kind = "Node" /\ child = -1 /\ node.data # <<>> ->
                   Yield([it EXCEPT !.stack[Len(it.stack)].child = 0], node)
              [] node.kind = "Node" /\ child = -1 /\ node.data = <<>> ->
                   VisitChildren([popped EXCEPT !.prefix =
                                     Append(@, node.prefix)], node, 0, base)
              [] node.kind = "Node" /\ child = 0 ->
                   VisitChildren([popped EXCEPT !.prefix =
                                     Append(@, node.prefix)], node, 0, base)
              [] OTHER -> VisitChildren(popped, node, child, base)
VisitChildren(it, node, child, base) ==
    IF child >= base
    THEN [it |-> [stack |-> Pop(it.stack), prefix |-> Pop(it.prefix)],
          res |-> <<>>]
    ELSE LET next == IterNext(
                 [it EXCEPT !.stack = @ \o
                     <<[node |-> node, child |-> child + 1],
                       [node |-> node.children[child], child |-> -1]>>], base)
         IN IF next.res # <<>> THEN next
            ELSE VisitChildren([next.it EXCEPT !.stack = Pop(@)],
                               node, child + 1, base)

(* All that an iterator yields, in order.                                  *)
RECURSIVE IterRest(_, _)
IterRest(it, base) ==
    LET next == IterNext(it, base)
    IN IF next.res = <<>> THEN <<>>
       ELSE next.res \o IterRest(next.it, base)
=============================================================================
