--------------------------- MODULE MultiOracleTries ---------------------------
(***************************************************************************)
(* The tries that hold the adaptor signatures of a numeric contract with   *)
(* several oracles: MultiOracleTrie, for oracles that have to agree, and   *)
(* MultiOracleTrieWithDiff, for oracles that may differ.                   *)
(*                                                                         *)
(* digits is the number of digits of each oracle (OracleNumericInfo); the  *)
(* tries are in base two when these differ, or when the oracles may.  An   *)
(* indexed path is a pair of an oracle and a path.                         *)
(***************************************************************************)
EXTENDS DigitTries

RangeInfo(cet, adaptor) == [cet_index |-> cet, adaptor_index |-> adaptor]

MinNbDigits(digits) == Min(ToSet(digits))
HasDiffNbDigits(digits) == Cardinality(ToSet(digits)) > 1

PrePad(path, size) == Repeat(0, size - Len(path)) \o path

(* The digit counts of the oracles in a selector.                          *)
Selected(digits, selector) ==
    [i \in DOMAIN selector |-> digits[selector[i] + 1]]

-----------------------------------------------------------------------------
(* multi_trie.rs.  At each level but the last, the data of a path is the   *)
(* list of the tries below it, one for each oracle that may come next.     *)

NbRoots(nbTries, nbRequired) == nbTries - nbRequired + 1

MultiTrie(nbTries, nbRequired) ==
    [i \in 0 .. NbRoots(nbTries, nbRequired) - 1 |-> NoNode]

(* find_store_index.                                                       *)
Below(infos, oracle) == SelectInSeq(infos, LAMBDA x : x.trie_index = oracle)

(* insert_internal, from the trie of the first oracle of the selector.     *)
RECURSIVE InsertBelow(_, _, _, _)
InsertBelow(node, paths, oracles, value) ==
    IF Len(paths) = 1 THEN Insert(node, paths[1], value, 2)
    ELSE LET infos == Stored(node, paths[1])
             at == Below(infos, oracles[2])
             info == IF at # 0 THEN infos[at]
                     ELSE [trie_index |-> oracles[2], trie |-> NoNode]
             new == [info EXCEPT !.trie =
                        InsertBelow(@, Tail(paths), Tail(oracles), value)]
         IN Insert(node, paths[1],
                   IF at # 0 THEN [infos EXCEPT ![at] = new]
                   ELSE Append(infos, new), 2)

InsertMulti(roots, paths, oracles, value) ==
    [roots EXCEPT ![oracles[1]] = InsertBelow(@, paths, oracles, value)]

(* look_up_internal: the first match, with the paths it was found at.      *)
RECURSIVE LookUpBelow(_, _)
LookUpBelow(node, paths) ==
    LET oracle == paths[1][1]
        results == LookUp(node, paths[1][2])
        Next(r) == LET at == Below(r.value, paths[2][1])
                   IN IF at = 0 THEN <<>>
                      ELSE LookUpBelow(r.value[at].trie, Tail(paths))
    IN IF Len(paths) = 1
       THEN IF results = <<>> THEN <<>>
            ELSE <<[value |-> results[1].value,
                    path |-> << <<oracle, results[1].path>> >>]>>
       ELSE LET i == SelectInSeq(results, LAMBDA r : Next(r) # <<>>)
            IN IF i = 0 THEN <<>>
               ELSE <<[Next(results[i])[1] EXCEPT
                          !.path = << <<oracle, results[i].path>> >> \o @]>>

(* look_up: the first combination of the attested paths that has a match.  *)
LookUpMulti(roots, paths, nbRequired) ==
    IF Len(paths) < nbRequired THEN <<>>
    ELSE LET all == Combinations(Len(paths), nbRequired)
             picked == [i \in DOMAIN all |->
                           [j \in 1 .. nbRequired |-> paths[all[i][j] + 1]]]
             Found(p) == IF p[1][1] \notin DOMAIN roots THEN <<>>
                         ELSE LookUpBelow(roots[p[1][1]], p)
             i == SelectInSeq(picked, LAMBDA p : Found(p) # <<>>)
         IN IF i = 0 THEN <<>> ELSE Found(picked[i])

(* MultiTrieIterator: the tries that are being visited, the lists of tries *)
(* below the paths they gave, the last level, and the path so far.         *)
NewMultiIter(roots, nbRequired) ==
    LET all == [i \in 1 .. Cardinality(DOMAIN roots) |->
                   [index |-> Cardinality(DOMAIN roots) - i,
                    it |-> NewIter(roots[Cardinality(DOMAIN roots) - i])]]
    IN [nodes |-> IF nbRequired > 1 THEN all ELSE <<>>,
        infos |-> <<>>,
        leaves |-> IF nbRequired > 1 THEN <<>> ELSE all,
        path |-> <<>>]

(* MultiIterNext is Iterator::next; NextOfInfo and NextOfNode are its      *)
(* second and its third part.                                              *)
RECURSIVE MultiIterNext(_, _), NextOfInfo(_, _), NextOfNode(_, _)
MultiIterNext(s, nbRequired) ==
    IF s.leaves # <<>>
    THEN LET top == Last(s.leaves)
             next == IterNext(top.it, 2)
         IN IF next.res = <<>>
            THEN MultiIterNext([s EXCEPT !.leaves = Front(@)], nbRequired)
            ELSE [it |-> [s EXCEPT !.leaves[Len(s.leaves)].it = next.it],
                  res |-> <<[path |-> Append(s.path,
                                        <<top.index, next.res[1].path>>),
                             value |-> next.res[1].value]>>]
    ELSE IF s.infos # <<>> THEN NextOfInfo(s, nbRequired)
    ELSE NextOfNode(s, nbRequired)
NextOfInfo(s, nbRequired) ==
    LET top == Last(s.infos)
        info == top.list[top.next]
        path == IF top.next # 1 THEN s.path
                ELSE Append(s.path, <<Last(s.nodes).index, top.path>>)
        child == [index |-> info.trie_index, it |-> NewIter(info.trie)]
        more == [s EXCEPT !.infos[Len(s.infos)].next = @ + 1, !.path = path]
    IN CASE top.next > Len(top.list) ->
              NextOfNode([s EXCEPT !.infos = Front(@), !.path = Pop(@)],
                         nbRequired)
         [] top.next =< Len(top.list) /\ Len(s.infos) + 1 < nbRequired ->
              NextOfNode([more EXCEPT !.nodes = Append(@, child)], nbRequired)
         [] OTHER ->
              MultiIterNext([more EXCEPT !.leaves = Append(@, child)],
                            nbRequired)
NextOfNode(s, nbRequired) ==
    IF s.nodes = <<>> THEN [it |-> s, res |-> <<>>]
    ELSE LET next == IterNext(Last(s.nodes).it, 2)
         IN IF next.res = <<>>
            THEN MultiIterNext([s EXCEPT !.nodes = Front(@)], nbRequired)
            ELSE MultiIterNext(
                   [s EXCEPT
                      !.nodes[Len(s.nodes)].it = next.it,
                      !.infos = Append(@, [path |-> next.res[1].path,
                                           list |-> next.res[1].value,
                                           next |-> 1])], nbRequired)

RECURSIVE MultiIterRest(_, _)
MultiIterRest(s, nbRequired) ==
    LET next == MultiIterNext(s, nbRequired)
    IN IF next.res = <<>> THEN <<>>
       ELSE next.res \o MultiIterRest(next.it, nbRequired)

-----------------------------------------------------------------------------
(* multi_oracle.rs: which paths of the other oracles are close enough to a *)
(* path of the main one.  support and error are exponents of two: outcomes *)
(* that differ by at most 2^support are covered, and none that differ by   *)
(* more than 2^error.                                                      *)

(* Mutant: the digits that are cut off are not looked at.                  *)
M_AdjustPrefixSize(prefix, expected) ==
    IF Len(prefix) =< expected THEN <<PrePad(prefix, expected)>>
    ELSE <<Skip(prefix, Len(prefix) - expected)>>

(* adjust_prefix_size: the error of the code is the empty sequence.        *)
AdjustPrefixSize(prefix, expected) ==
    IF Len(prefix) =< expected THEN <<PrePad(prefix, expected)>>
    ELSE IF ToSet(Take(prefix, Len(prefix) - expected)) \subseteq {0}
    THEN <<Skip(prefix, Len(prefix) - expected)>> ELSE <<>>

(* The order of Vec<usize>.                                                *)
LexLeq(a, b) ==
    LET n == Len(CommonPrefix(a, b))
    IN n = Len(a) \/ (n < Len(b) /\ a[n + 1] < b[n + 1])

(* num_to_vec in base two.                                                 *)
NumToVec(value, nbDigits, ignored) ==
    Take(DecomposeValue(value, 2, nbDigits), nbDigits - ignored)

MinSupportCoveringPrefix(start, end, support, nbDigits) ==
    CommonPrefix(DecomposeValue(start - 2 ^ support, 2, nbDigits),
                 DecomposeValue(end + 2 ^ support, 2, nbDigits))

(* compute_left_covering_prefix with a bound of start - min_support and    *)
(* digit 1, compute_right_covering_prefix with end + min_support and 0.    *)
SideCoveringPrefix(bound, digit, error, nbDigits) ==
    LET path == DecomposeValue(bound, 2, nbDigits)
        n == Max({i \in nbDigits - error .. nbDigits :
                    \A j \in nbDigits - error + 1 .. i : path[j] = digit})
    IN Take(path, n)

(* One combination: the paths, each for as many digits as its oracle has   *)
(* more than the main one (nbDigits).                                      *)
Adjusted(paths, digits, nbDigits) ==
    LET fit == [i \in DOMAIN paths |->
                   AdjustPrefixSize(paths[i],
                                    digits[i] - nbDigits + Len(paths[i]))]
    IN IF \E i \in DOMAIN fit : fit[i] = <<>> THEN <<>>
       ELSE <<[i \in DOMAIN fit |-> fit[i][1]]>>

(* single_covering_prefix_combinations.  The code unwraps where a path     *)
(* does not fit, which cannot be while the maximum error has an exponent   *)
(* below the number of digits of the main oracle.                          *)
SingleCovering(main, other, digits, nbDigits) ==
    Adjusted(<<main>> \o [i \in 1 .. Len(digits) - 1 |-> other],
             digits, nbDigits)

(* double_covering_prefix_combinations: every choice for the others, the   *)
(* last oracle changing first; those that do not fit are left out.         *)
DoubleCovering(main, left, right, digits, nbDigits) ==
    LET first == IF LexLeq(left, right) THEN left ELSE right
        second == IF LexLeq(left, right) THEN right ELSE left
        n == Len(digits)
        Choice(i) == [j \in 1 .. n |->
                         IF j = 1 THEN main
                         ELSE IF (i \div 2 ^ (n - j)) % 2 = 0 THEN first
                         ELSE second]
    IN FlattenSeq([i \in 1 .. 2 ^ (n - 1) |->
                      Adjusted(Choice(i - 1), digits, nbDigits)])

(* double_covering_restricted_prefix_combinations: not the one in which    *)
(* all have the path of the main oracle.                                   *)
RestrictedCovering(main, other, digits, nbDigits) ==
    LET all == DoubleCovering(main, main, other, digits, nbDigits)
    IN IF LexLeq(main, other) THEN Tail(all) ELSE Front(all)

(* The paths of the two sides for an interval that is shorter than the     *)
(* maximum error and lies in the error interval left .. left + 2^error - 1.*)
ShortCovering(path, start, end, digits, nbDigits, error, support, maximize) ==
    LET left == (start \div 2 ^ error) * 2 ^ error
        right == left + 2 ^ error - 1
        whole == NumToVec(left, nbDigits, error)
        Or(min) == IF maximize THEN whole ELSE min
        toLeft == SideCoveringPrefix(start - 2 ^ support, 1, error, nbDigits)
        toRight == SideCoveringPrefix(end + 2 ^ support, 0, error, nbDigits)
        single(p) == SingleCovering(path, p, digits, nbDigits)
        double(p, q) == DoubleCovering(path, p, q, digits, nbDigits)
    IN CASE start - left >= 2 ^ support /\ end =< right - 2 ^ support ->
              single(Or(MinSupportCoveringPrefix(start, end, support,
                                                 nbDigits)))
         [] start - left < 2 ^ support /\ left = 0 -> single(Or(toRight))
         [] start - left < 2 ^ support /\ left # 0 ->
              double(Or(toRight),
                     IF maximize
                     THEN NumToVec(left - 2 ^ (error - 1), nbDigits, error - 1)
                     ELSE toLeft)
         [] OTHER ->
              IF right = 2 ^ nbDigits - 1 THEN single(Or(toLeft))
              ELSE double(Or(toLeft),
                          IF maximize
                          THEN NumToVec(right + 1, nbDigits, error - 1)
                          ELSE toRight)

(* The rest of compute_outcome_combinations: the others agree, or are next *)
(* to one of the ends.                                                     *)
LongCovering(path, start, end, digits, nbDigits, exp) ==
    LET near(inside, outside) ==
            RestrictedCovering(NumToVec(inside, nbDigits, exp),
                               NumToVec(outside, nbDigits, exp),
                               digits, nbDigits)
    IN (IF start = 0 THEN <<>> ELSE near(start, start - 2 ^ exp))
       \o SingleCovering(path, path, digits, nbDigits)
       \o (IF end = 2 ^ nbDigits - 1 THEN <<>>
           ELSE near(end - 2 ^ exp + 1, end + 1))

(* compute_outcome_combinations.  The first oracle is the main one and has *)
(* the fewest digits; when others have more, one digit is added.           *)
OutcomeCombinations(digits, mainPath, error, support, maximize) ==
    LET more == IF HasDiffNbDigits(digits) THEN 1 ELSE 0
        nbDigits == digits[1] + more
        path == Repeat(0, more) \o mainPath
        suffix == nbDigits - Len(path)
        start == ComposeValue(path \o Repeat(0, suffix), 2)
        end == start + 2 ^ suffix - 1
    IN IF suffix < error
       THEN ShortCovering(path, start, end, digits, nbDigits, error, support,
                          maximize)
       ELSE LongCovering(path, start, end, digits, nbDigits,
                         IF maximize THEN error - 1 ELSE support)

(* get_max_covering_paths: what lies above the outcomes of the oracles     *)
(* with the fewest digits.  Such an oracle has its largest outcome, the    *)
(* others any outcome whose first digit that is set is an additional one.  *)
NextCounters(counters, max) ==
    LET i == Min({j \in DOMAIN max : counters[j] # max[j]})
    IN [j \in DOMAIN max |->
           CASE j < i -> IF max[j] = 0 THEN 0 ELSE 1
             [] j = i -> counters[j] + 1
             [] OTHER -> counters[j]]

RECURSIVE CountersFrom(_, _)
CountersFrom(counters, max) ==
    IF counters = max THEN <<counters>>
    ELSE <<counters>> \o CountersFrom(NextCounters(counters, max), max)

MaxCoveringPaths(digits, selector) ==
    LET least == MinNbDigits(digits)
        infos == Selected(digits, selector)
        max == [i \in DOMAIN infos |-> infos[i] - least]
        first == [i \in DOMAIN infos |-> IF max[i] = 0 THEN 0 ELSE 1]
        Path(x) == IF x = 0 THEN Repeat(1, least)
                   ELSE Append(Repeat(0, x - 1), 1)
        all == CountersFrom(first, max)
    IN IF ToSet(infos) = {least} THEN <<>>
       ELSE [i \in DOMAIN all |-> [j \in DOMAIN infos |-> Path(all[i][j])]]
=============================================================================
