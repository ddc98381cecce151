----------------------------- MODULE AdaptorTries -----------------------------
(***************************************************************************)
(* What a numeric contract keeps in its tries: for each range of outcomes  *)
(* and each set of oracles that is enough to close, the index of the CET   *)
(* and of the adaptor signature.  The two users of the tries are           *)
(*                                                                         *)
(*   MultiOracleTrie          threshold oracles attest the same value;     *)
(*   MultiOracleTrieWithDiff  they may differ, see MultiOracleTries.       *)
(*                                                                         *)
(* numeric is an OracleNumericInfo, [base, nb_digits], outcomes a sequence *)
(* of range payouts, [start, count, payout].                               *)
(***************************************************************************)
EXTENDS MultiOracleTries

IterInfo(indexes, paths, value) ==
    [indexes |-> indexes, paths |-> paths, value |-> value]

(* The entries, in the order in which their adaptor indexes are given out. *)
Numbered(entries, start) ==
    [i \in DOMAIN entries |->
        IterInfo(entries[i].indexes, entries[i].paths,
                 RangeInfo(entries[i].cet, start + i - 1))]

Entry(cet, indexes, paths) ==
    [cet |-> cet, indexes |-> indexes, paths |-> paths]

Groups(outcome, numeric) ==
    GroupByIgnoringDigits(outcome.start, outcome.start + outcome.count - 1,
                          numeric.base, MinNbDigits(numeric.nb_digits))

Entries(cet, selector, paths) ==
    [i \in DOMAIN paths |-> Entry(cet, selector, paths[i])]

(* The paths of insert_max_paths: they belong to the last CET.             *)
MaxEntries(numeric, threshold, lastCet) ==
    LET all == Combinations(Len(numeric.nb_digits), threshold)
    IN FlattenSeq([i \in DOMAIN all |->
           Entries(lastCet, all[i],
                   MaxCoveringPaths(numeric.nb_digits, all[i]))])

(* Every entry is inserted as soon as its index is known.                  *)
InsertAll(roots, infos) ==
    FoldLeft(LAMBDA t, x : InsertMulti(t, x.paths, x.indexes, x.value),
             roots, infos)

-----------------------------------------------------------------------------
(* multi_oracle_trie.rs                                                    *)

(* A prefix, with as many zeros before it as the oracle has more digits.   *)
PaddedFor(oracle, path, digits) ==
    PrePad(path, Len(path) + digits[oracle + 1] - MinNbDigits(digits))

PathsFor(selector, path, digits) ==
    [i \in DOMAIN selector |-> PaddedFor(selector[i], path, digits)]

(* The prefixes of all the outcomes, each with its CET, in their order.    *)
PrefixesOf(cet, groups) ==
    [g \in DOMAIN groups |-> [cet |-> cet, path |-> groups[g]]]

OutcomePrefixes(numeric, outcomes) ==
    FlattenSeq([c \in DOMAIN outcomes |->
        PrefixesOf(c - 1, Groups(outcomes[c], numeric))])

(* What lies above the outcomes of the oracles with the fewest digits.     *)
ExtraEntries(numeric, threshold, outcomes) ==
    IF HasDiffNbDigits(numeric.nb_digits)
    THEN MaxEntries(numeric, threshold, Len(outcomes) - 1) ELSE <<>>

(* The entries of the prefixes: at each, every combination of oracles.     *)
AgreeEntries(prefixes, all, digits) ==
    FlattenSeq([p \in DOMAIN prefixes |->
        [i \in DOMAIN all |->
            Entry(prefixes[p].cet, all[i],
                  PathsFor(all[i], prefixes[p].path, digits))]])

(* The tries over the entries.  The data of a prefix are the entries of    *)
(* the combinations of oracles, in the order of the combinations.          *)
AgreeTries(numeric, threshold, prefixes, perPrefix, infos) ==
    LET DataOf(p) == [i \in 1 .. perPrefix |->
                         infos[(p - 1) * perPrefix + i].value]
    IN [infos |-> infos,
        trie |-> [digit_trie |->
                    FoldLeft(LAMBDA t, p :
                                 Insert(t, prefixes[p].path, DataOf(p),
                                        numeric.base),
                             NoNode, [p \in DOMAIN prefixes |-> p]),
                  extra_cover_trie |->
                    InsertAll(MultiTrie(Len(numeric.nb_digits), threshold),
                              Skip(infos, perPrefix * Len(prefixes)))]]

(* MultiOracleTrie::generate.                                              *)
GenerateAgree(numeric, threshold, outcomes, start) ==
    LET all == Combinations(Len(numeric.nb_digits), threshold)
        prefixes == OutcomePrefixes(numeric, outcomes)
    IN AgreeTries(numeric, threshold, prefixes, Len(all),
           Numbered(AgreeEntries(prefixes, all, numeric.nb_digits)
                        \o ExtraEntries(numeric, threshold, outcomes), start))

(* What MultiTrieIterator yields, as the users of the trie see it.         *)
MultiInfos(roots, threshold) ==
    LET all == MultiIterRest(NewMultiIter(roots, threshold), threshold)
    IN [i \in DOMAIN all |->
           IterInfo([j \in DOMAIN all[i].path |-> all[i].path[j][1]],
                    [j \in DOMAIN all[i].path |-> all[i].path[j][2]],
                    all[i].value)]

(* MultiOracleTrieIter: at each prefix all the combinations, then what the *)
(* extra cover trie holds.                                                 *)
IterAgree(trie, numeric, threshold) ==
    LET digits == numeric.nb_digits
        all == Combinations(Len(digits), threshold)
        found == IterRest(NewIter(trie.digit_trie), numeric.base)
    IN FlattenSeq([r \in DOMAIN found |->
           [i \in DOMAIN all |->
               IterInfo(all[i], PathsFor(all[i], found[r].path, digits),
                        found[r].value[i])]])
       \o MultiInfos(trie.extra_cover_trie, threshold)

(* Mutant: an oracle with more digits is not heard.                        *)
M_Stripped(paths, least) ==
    SelectSeq(paths, LAMBDA p : Len(p[2]) = least)

(* The attested paths that are in the range of every oracle, cut to the    *)
(* fewest digits.                                                          *)
Stripped(paths, least) ==
    LET fits == SelectSeq(paths, LAMBDA p :
                    /\ Len(p[2]) >= least
                    /\ ToSet(Take(p[2], Len(p[2]) - least)) \subseteq {0})
    IN [i \in DOMAIN fits |->
           <<fits[i][1], Skip(fits[i][2], Len(fits[i][2]) - least)>>]

(* get_agreeing_oracles: the paths that threshold oracles attested.        *)
AgreeingOracles(paths, threshold) ==
    LET OraclesOf(path) ==
            LET same == SelectSeq(paths, LAMBDA p : p[2] = path)
            IN [i \in DOMAIN same |-> same[i][1]]
        all == {[path |-> paths[i][2], oracles |-> OraclesOf(paths[i][2])] :
                   i \in DOMAIN paths}
    IN {x \in all : Len(x.oracles) >= threshold}

(* MultiOracleTrie::look_up.  The paths on which enough oracles agree are  *)
(* tried from the one with the fewest oracles on; those with equally many  *)
(* come in the order of a hash map.  The result is the set of the answers  *)
(* the call can give, empty for None.                                      *)
LookUpAgree(trie, numeric, threshold, paths) ==
    LET digits == numeric.nb_digits
        agreeing == AgreeingOracles(Stripped(paths, MinNbDigits(digits)),
                                    threshold)
        Answer(x) ==
            LET found == LookUp(trie.digit_trie, x.path)
                oracles == Take(x.oracles, threshold)
                position == CombinationIndex(oracles, Len(digits))
            IN IF found = <<>> \/ position = 0 THEN {}
               ELSE {[value |-> found[1].value[position],
                      path |-> [i \in DOMAIN oracles |->
                          <<oracles[i],
                            PaddedFor(oracles[i], found[1].path, digits)>>]]}
        answered == {x \in agreeing : Answer(x) # {}}
        first == {x \in answered :
                     \A y \in answered : Len(x.oracles) =< Len(y.oracles)}
    IN IF first # {} THEN UNION {Answer(x) : x \in first}
       ELSE ToSet(LookUpMulti(trie.extra_cover_trie, paths, threshold))

-----------------------------------------------------------------------------
(* multi_oracle_trie_with_diff.rs, and insert of multi_trie.rs             *)

(* MultiTrie::insert: the paths for one selector.  The oracle that has the *)
(* fewest digits of the selector is the main one, the first of those.      *)
MainMoved(paths, main) ==
    [i \in DOMAIN paths |-> InsertAt(Tail(paths[i]), main, paths[i][1])]

CombinationsFor(digits, selector, path, error, support, maximize) ==
    LET infos == Selected(digits, selector)
        main == SelectInSeq(infos, LAMBDA n : n = Min(ToSet(infos)))
        mainFirst == <<infos[main]>> \o RemoveAt(infos, main)
        padded == PrePad(path, Len(path) + infos[main] - MinNbDigits(digits))
    IN IF Len(selector) = 1 THEN << <<path>> >>
       ELSE MainMoved(OutcomeCombinations(mainFirst, padded, error, support,
                                          maximize), main)

(* The entries of the prefixes: at each, every combination of oracles and, *)
(* for it, every combination of paths.  The coverage is always maximized:  *)
(* new does not read maximize_coverage.                                    *)
DiffEntries(prefixes, all, digits, diff) ==
    FlattenSeq([p \in DOMAIN prefixes |->
        FlattenSeq([i \in DOMAIN all |->
            Entries(prefixes[p].cet, all[i],
                    CombinationsFor(digits, all[i], prefixes[p].path,
                                    diff.max_error_exp, diff.min_support_exp,
                                    TRUE))])])

DiffTrie(roots, infos) == [infos |-> infos, trie |-> InsertAll(roots, infos)]

(* MultiOracleTrieWithDiff::generate.                                      *)
GenerateDiff(numeric, threshold, diff, outcomes, start) ==
    LET digits == numeric.nb_digits
    IN DiffTrie(MultiTrie(Len(digits), threshold),
           Numbered(DiffEntries(OutcomePrefixes(numeric, outcomes),
                                Combinations(Len(digits), threshold),
                                digits, diff)
                        \o ExtraEntries(numeric, threshold, outcomes), start))
=============================================================================
