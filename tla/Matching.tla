------------------------------ MODULE Matching ------------------------------
(***************************************************************************)
(* Lookups that return many matches: GetNear and GetFuzzy of an index      *)
(* (index/internal/base_index_reader.h, index_lookup_util.h) and of a      *)
(* dictionary, prefix and multiword completion, GetAllItems and LookupText *)
(* (dictionary/dictionary.h, dictionary/matching/).                        *)
(*                                                                         *)
(* A matcher drives a traverser: it looks at the state the traverser shows,*)
(* returns it as a match, goes on or prunes, and keeps state of its own    *)
(* between the calls of NextMatch.  It runs here on the traverser of       *)
(* ZipTraverser; over a single dictionary that one is a queue of one.      *)
(* Fuzzy matchers see code points instead of bytes                         *)
(* (dictionary/fsa/codepoint_state_traverser.h).                           *)
(***************************************************************************)
EXTENDS ZipTraverser, StringDistance

CONSTANTS
  SPACE, SEPARATOR,   \* 0x20 and the multiword separator 0x1b
  LeadBytes,          \* bytes that lead a character of two bytes ...
  FollowBytes,        \* ... and bytes that follow one
  Searches,           \* lookups: type, query and the other arguments
  SearchFsas(_)       \* lists of dictionaries a lookup of a type may run on

VARIABLES
  search,      \* the lookup, or one of type "free": the traverser is driven
               \* in any order
  deleted,     \* deleted keys per segment
  m,           \* state of the matcher and of its code point traverser
  found,       \* the matches returned so far
  phase        \* "new", "run" or "done"

matchVars == <<search, deleted, m, found, phase>>

-----------------------------------------------------------------------------
(* Characters and words.                                                   *)

IsLeadByte(b) == b \notin FollowBytes

GetCharLength(b) == IF b \in LeadBytes THEN 2 ELSE 1

\* utf8to32: a code point is the sequence of its bytes
CodePoints(bytes) ==
  FoldLeft(LAMBDA s, b : IF IsLeadByte(b) THEN Append(s, <<b>>)
                         ELSE Append(Front(s), Append(Last(s), b)),
           <<>>, bytes)

Bytes(codepoints) == FlattenSeq(codepoints)

Tokens(query) ==
  FoldLeft(LAMBDA s, b : IF b = SPACE THEN Append(s, <<>>)
                         ELSE Append(Front(s), Append(Last(s), b)),
           <<<<>>>>, query)

\* all words but the last in order
BagOfWordsPartial(query) ==
  LET tokens == Tokens(query)
      sorted == Append(SortSeq(Front(tokens), LAMBDA a, b : LessPath(a, b)), Last(tokens))
  IN  FoldLeft(LAMBDA s, t : s \o <<SPACE>> \o t, Head(sorted), Tail(sorted))

-----------------------------------------------------------------------------
(* The state a matcher starts from: the exact prefix is walked in every    *)
(* segment, those that do not have it are left out.                        *)

NearPath(s) == SubSeq(s.query, 1, s.prefix)

\* code point by code point; past the end of the query comes the
\* terminating 0, which no key has
FuzzyPath(s) ==
  LET codepoints == CodePoints(s.query)
  IN  IF s.prefix > Len(codepoints) THEN Append(s.query, 0)
      ELSE Bytes(SubSeq(codepoints, 1, s.prefix))

PrefixPath(s) == s.query

MultiwordPath(s) == BagOfWordsPartial(s.query)

\* the query as it is, not its sorted words
FuzzyMultiwordPath(s) == FuzzyPath(s)

FilterWithExactPrefix(ds, path) == {i \in DOMAIN ds : Below(ds[i], path) # {}}

-----------------------------------------------------------------------------
(* The functions of Dictionary and of the index: which traverser they      *)
(* create and where it starts.                                             *)

GetAllItems(s) == [kind |-> "plain", path |-> <<>>]

GetNear(s) == [kind |-> "near", path |-> NearPath(s)]

\* by weight only if a single segment is left
GetFuzzy(s, ds) ==
  LET path == FuzzyPath(s)
  IN  [kind |-> IF Cardinality(FilterWithExactPrefix(ds, path)) > 1 THEN "plain" ELSE "weighted",
       path |-> path]

GetPrefixCompletion(s) == [kind |-> "weighted", path |-> PrefixPath(s)]

GetMultiwordCompletion(s) == [kind |-> "weighted", path |-> MultiwordPath(s)]

GetFuzzyMultiwordCompletion(s) == [kind |-> "weighted", path |-> FuzzyMultiwordPath(s)]

Plan(s, ds) ==
  CASE s.type = "near"            -> GetNear(s)
    [] s.type = "fuzzy"           -> GetFuzzy(s, ds)
    [] s.type = "prefix"          -> GetPrefixCompletion(s)
    [] s.type = "multiword"       -> GetMultiwordCompletion(s)
    [] s.type = "fuzzy_multiword" -> GetFuzzyMultiwordCompletion(s)
    [] OTHER                      -> GetAllItems(s)

UsesCodePoints == search.type \in {"fuzzy", "fuzzy_multiword"}

\* the metric with the exact prefix put into it
MetricFor(codepoints, prefix, max, completion) ==
  FoldLeft(LAMBDA metric, i : Put(metric, codepoints[i], i - 1),
           NewMetric(codepoints, max, completion),
           [i \in 1 .. Min({prefix, Len(codepoints)}) |-> i])

NewMatcher(s) ==
  [moving   |-> s.type \in {"fuzzy", "fuzzy_multiword"},
   returned |-> FALSE,
   history  |-> <<>>, depth |-> 0,       \* transitions_stack_, current_depth_
   matched  |-> 0,                       \* matched_depth_
   boundary |-> 0, tokens |-> <<>>,      \* multiword_boundary_, token_start_positions_
   best     |-> [i \in 1 .. s.top |-> 0],
   metric   |-> CASE s.type = "fuzzy" ->
                       MetricFor(CodePoints(s.query), s.prefix, s.max, FALSE)
                  [] s.type = "fuzzy_multiword" ->
                       MetricFor(CodePoints(BagOfWordsPartial(s.query)), s.prefix, s.max, TRUE)
                  [] OTHER -> NewMetric(<<>>, 0, FALSE)]

-----------------------------------------------------------------------------
(* CodePointStateTraverser.                                                *)

PruneHistory(h, top) ==
  LET dropped == SubSeq(h.history, top + 1, Len(h.history))
  IN  [h EXCEPT !.history = SubSeq(@, 1, Min({top, Len(@)})),
                !.depth = @ - Len(SelectSeq(dropped, LAMBDA e : IsLeadByte(e.label)))]

\* one round of the loop of operator++, after the wrapped traverser moved to
\* the path labels: it goes on until the last byte of a character
TakeByte(h, labels) ==
  LET up    == PruneHistory(h, Len(labels) - 1)
      label == Last(labels)
      leads == up.history = <<>> \/ Last(up.history).remaining = 0
      remaining == IF leads THEN GetCharLength(label) - 1 ELSE Last(up.history).remaining - 1
  IN  [up EXCEPT !.history = Append(@, [label |-> label, remaining |-> remaining]),
                 !.depth = @ + IF leads THEN 1 ELSE 0,
                 !.moving = remaining > 0]

\* ExtractCodePointFromStack
CodePoint(h) ==
  LET lead == Max({i \in DOMAIN h.history : IsLeadByte(h.history[i].label)})
  IN  [i \in 1 .. Len(h.history) - lead + 1 |-> h.history[lead + i - 1].label]

\* the matcher after the traverser moved
Moved(h, over, labels) ==
  IF over \/ ~UsesCodePoints
  THEN [h EXCEPT !.moving = FALSE, !.history = <<>>, !.depth = 0]
  ELSE TakeByte(h, labels)

\* Prune of the code point traverser asks the wrapped one for its depth; the
\* zip traverser still tells the one from before
Pruned(h) ==
  LET single == Cardinality(FilterWithExactPrefix(fsas, from)) = 1
      depth  == Len(view.labels) - IF single THEN 1 ELSE 0
  IN  [(IF UsesCodePoints THEN PruneHistory(h, depth) ELSE h) EXCEPT !.moving = TRUE]

-----------------------------------------------------------------------------
(* One round of the loop of NextMatch: whether the state is a match,       *)
(* whether to prune, and what the matcher keeps.                           *)

Path == from \o view.labels

Verdict(prune, emit, string, score, h) ==
  [prune |-> prune, emit |-> emit /\ ~prune, string |-> string, score |-> score, m |-> h]

ExactDepth == Ordered(traverser_queue_)[1].exact_depth

\* mutant: a match at less than the depth matched before is returned too
NearKeepsDepth == Verdict(FALSE, view.final, Path, Len(from) + ExactDepth, m)

NearMatch ==
  Verdict(FALSE, view.final, Path, Len(from) + ExactDepth,
          [m EXCEPT !.matched = IF view.final /\ ~search.greedy THEN ExactDepth ELSE @])

CandidateLength == search.prefix + m.depth

FuzzyVerdict(metric) ==
  LET size == Len(metric.input)
  IN  Verdict(\/ size > CandidateLength /\ IntermediateScore(metric) > search.max
              \/ size + search.max < CandidateLength,
              view.final /\ GetScore(metric) <= search.max,
              Bytes(GetCandidate(metric)), GetScore(metric),
              [m EXCEPT !.metric = metric])

FuzzyMatch == FuzzyVerdict(Put(m.metric, CodePoint(m), CandidateLength - 1))

\* the callback of GetAllItems
EveryItem == Verdict(FALSE, view.final, Path, 0, m)

PrefixMatch == Verdict(FALSE, view.final, Path, 0, m)

\* BoundedPriorityQueue: the worst of the best goes
Back(best) == Min(Range(best))

PutBest(best, weight) == SortSeq([best EXCEPT ![1] = weight], LAMBDA a, b : a < b)

\* completion with top_n: matches that are too light are skipped
TopMatch(verdict) ==
  LET good == view.value >= Back(m.best)
  IN  IF search.top = 0 \/ ~verdict.emit THEN verdict
      ELSE [verdict EXCEPT !.emit = good,
                           !.m.best = IF good THEN PutBest(@, view.value) ELSE @]

\* the boundary of the words to match and the text they stand for
Boundary(depth) ==
  IF Last(view.labels) = SEPARATOR THEN depth
  ELSE IF depth <= m.boundary THEN 0 ELSE m.boundary

\* mutant: the boundary stays when the traverser went up
MultiwordStale ==
  LET boundary == IF Last(view.labels) = SEPARATOR THEN Len(view.labels) ELSE m.boundary
      string   == IF boundary > 0 THEN SubSeq(Path, Len(from) + boundary + 1, Len(Path)) ELSE Path
  IN  Verdict(Last(view.labels) = SPACE /\ boundary = 0, view.final, string, 0,
              [m EXCEPT !.boundary = boundary])

\* no more words than in the query
MultiwordMatch ==
  LET boundary == Boundary(Len(view.labels))
      string   == IF boundary > 0 THEN SubSeq(Path, Len(from) + boundary + 1, Len(Path)) ELSE Path
  IN  Verdict(Last(view.labels) = SPACE /\ boundary = 0, view.final, string, 0,
              [m EXCEPT !.boundary = boundary])

FuzzyWords(metric, boundary, tokens) ==
  LET string == IF boundary > 0
                THEN SubSeq(GetCandidate(metric), search.prefix + boundary + 1, metric.length)
                ELSE GetCandidate(metric)
  IN  Verdict(IntermediateScore(metric) > search.max, view.final, Bytes(string), GetScore(metric),
              [m EXCEPT !.tokens = tokens, !.boundary = boundary, !.metric = metric])

FuzzyMultiwordMatch ==
  LET label    == CodePoint(m)
      tokens   == SelectSeq(m.tokens, LAMBDA t : t < m.depth)
      early    == label = <<SEPARATOR>> /\ Len(tokens) # Len(Tokens(search.query)) - 1
      boundary == Boundary(m.depth)
      pushed   == IF label = <<SPACE>> /\ boundary = 0 THEN Append(tokens, m.depth) ELSE tokens
  IN  IF early THEN Verdict(TRUE, FALSE, <<>>, 0, [m EXCEPT !.tokens = tokens])
      ELSE FuzzyWords(Put(m.metric, label, search.prefix + m.depth - 1), boundary, pushed)

NextMatch ==
  CASE search.type = "near"            -> NearMatch
    [] search.type = "fuzzy"           -> FuzzyMatch
    [] search.type = "prefix"          -> TopMatch(PrefixMatch)
    [] search.type = "multiword"       -> TopMatch(MultiwordMatch)
    [] search.type = "fuzzy_multiword" -> FuzzyMultiwordMatch
    [] OTHER                           -> EveryItem

\* only NearMatching stops before the traverser is exhausted
Continues == ~view.over /\ (search.type = "near" => Len(view.labels) > m.matched)

-----------------------------------------------------------------------------

Match(key, string, value, score) ==
  [key |-> key, string |-> string, value |-> value, score |-> score]

\* the exact prefix is a key itself: the segments that have it
Holders == {i \in DOMAIN fsas : from \in DOMAIN fsas[i]}

First(i, string, score) == <<[order |-> i, match |-> Match(from, string, fsas[i][from], score)]>>

\* NearMatching takes the newest of them, the others the oldest; the string
\* is the query, whatever the prefix is
NearFirst ==
  IF Holders = {} THEN <<>> ELSE First(Max(Holders), search.query, search.prefix)

FuzzyFirst(metric) ==
  IF Holders = {} \/ GetScore(metric) > search.max THEN <<>>
  ELSE First(Min(Holders), from, GetScore(metric))

PrefixFirst == IF Holders = {} THEN <<>> ELSE First(Min(Holders), search.query, 0)

MultiwordFirst == IF Holders = {} THEN <<>> ELSE First(Min(Holders), search.query, 0)

FuzzyMultiwordFirst ==
  IF Holders = {} \/ search.prefix # Len(CodePoints(BagOfWordsPartial(search.query))) THEN <<>>
  ELSE First(Min(Holders), search.query, 0)

FirstMatch(metric) ==
  CASE search.type = "near"            -> NearFirst
    [] search.type = "fuzzy"           -> FuzzyFirst(metric)
    [] search.type = "prefix"          -> PrefixFirst
    [] search.type = "multiword"       -> MultiwordFirst
    [] search.type = "fuzzy_multiword" -> FuzzyMultiwordFirst
    [] OTHER                           -> <<>>

\* CreatedDeletedKeysMap: the deleted keys of the segment a match is from
IsDeleted(order, string) == string \in deleted[order]

FirstFilteredMatch(first) ==
  IF first = <<>> \/ IsDeleted(first[1].order, first[1].match.string) THEN <<>>
  ELSE <<first[1].match>>

\* a match of a deleted key is dropped, and the matcher forgets how deep it
\* has matched (ResetLastMatch)
NextFilteredMatch(verdict) ==
  LET hidden == verdict.emit /\ IsDeleted(view.order, verdict.string)
  IN  [verdict EXCEPT !.emit = @ /\ ~hidden,
                      !.m.matched = IF hidden THEN 0 ELSE @]

Create ==
  /\ phase = "new" /\ search.type # "text"
  /\ Construct(~UsesCodePoints)
  /\ found' = FirstFilteredMatch(FirstMatch(NewMatcher(search).metric))
  /\ m' = [NewMatcher(search) EXCEPT !.returned = (found' # <<>>)]
  /\ phase' = "run"
  /\ UNCHANGED <<search, deleted>>

Visit ==
  /\ phase = "run" /\ ~m.moving /\ Continues
  /\ \E verdict \in {NextFilteredMatch(NextMatch)} :
       LET next == [verdict.m EXCEPT !.returned = verdict.emit]
       IN  /\ found' = IF verdict.emit THEN Append(found, Match(Path, verdict.string, view.value, verdict.score))
                       ELSE found
           /\ \/ verdict.prune /\ PruneAll /\ m' = Pruned(next)
              \/ ~verdict.prune /\ Increment /\ m' = Moved(next, view'.over, view'.labels)
  /\ UNCHANGED <<search, deleted, phase>>

\* the traverser moves without being looked at: after Prune, and inside of a
\* character
Move ==
  /\ phase = "run" /\ m.moving /\ ~view.over
  /\ Increment
  /\ m' = Moved([m EXCEPT !.returned = FALSE], view'.over, view'.labels)
  /\ UNCHANGED <<search, deleted, found, phase>>

\* NextMatch returns nothing: the iterator releases the matcher
Finish ==
  /\ phase = "run" /\ (view.over \/ (~m.moving /\ ~Continues))
  /\ phase' = "done"
  /\ UNCHANGED <<vars, search, deleted, m, found>>

\* MatchIterator::SetMinWeight, which its user may call between two matches
RaiseMinWeight(weight) ==
  /\ phase = "run" /\ m.returned
  /\ search.type \in {"prefix", "multiword"}
  /\ SetMinimum(weight)
  /\ UNCHANGED matchVars

-----------------------------------------------------------------------------
(* LookupText: the longest match at the start of every word.               *)

\* mutant: the first key that ends with a word ends the lookup
LookupShortest(d, text, offset) ==
  LET part(n) == SubSeq(text, offset + 1, n)
      last[n \in offset .. Len(text)] ==
        IF n = offset THEN offset
        ELSE IF last[n - 1] > offset \/ part(n) \notin DOMAIN d THEN last[n - 1]
        ELSE IF n = Len(text) \/ text[n + 1] = SPACE THEN n ELSE last[n - 1]
      end == last[Len(text)]
  IN  IF end = offset THEN <<>> ELSE <<Match(part(end), part(end), d[part(end)], 0)>>

\* The automaton is walked as far as it goes; the last final state in front of
\* a space or at the end counts.
Lookup(d, text, offset) ==
  LET part(n) == SubSeq(text, offset + 1, n)
      walks(n) == \E k \in DOMAIN d : IsPrefix(part(n), k)
      final(n) == part(n) \in DOMAIN d /\ (n = Len(text) \/ text[n + 1] = SPACE)
      \* last_final_state_position, 0 if there is none
      final_from[n \in offset .. Len(text)] ==
        IF n = Len(text) \/ ~walks(n + 1) THEN 0
        ELSE IF final_from[n + 1] = 0 /\ final(n + 1) THEN n + 1 ELSE final_from[n + 1]
      end == final_from[offset]
  IN  IF end = 0 THEN <<>> ELSE <<Match(part(end), part(end), d[part(end)], 0)>>

\* The text is looked up from its begin, then behind every space but one at its
\* begin: the loop starts at position 1.  Lookups without a match are passed over.
LookupText(d, text) ==
  LET matches[position \in 1 .. Len(text) + 1] ==
        IF position >= Len(text) THEN <<>>
        ELSE IF text[position + 1] # SPACE THEN matches[position + 1]
        ELSE Lookup(d, text, position + 1) \o matches[position + 1]
  IN  Lookup(d, text, 0) \o matches[1]

FindText ==
  /\ phase = "new" /\ search.type = "text"
  /\ found' = LookupText(fsas[1], search.query)
  /\ phase' = "done"
  /\ UNCHANGED <<vars, search, deleted, m>>

-----------------------------------------------------------------------------

\* Deletes reach the segments that exist when they are made: of the keys in
\* some set, the entries of the first segments.
Deletions(ds) ==
  {[i \in DOMAIN ds |-> IF i <= n THEN d \cap DOMAIN ds[i] ELSE {}] :
     n \in DOMAIN ds, d \in {{}} \cup {{k} : k \in UNION {DOMAIN ds[i] : i \in DOMAIN ds}}}

InitFree ==
  /\ Init
  /\ search = [type |-> "free", query |-> <<>>, prefix |-> 0, greedy |-> FALSE, max |-> 0, top |-> 0]
  /\ deleted = [i \in DOMAIN fsas |-> {}]

InitSearch ==
  /\ search \in Searches
  /\ fsas \in SearchFsas(search.type)
  /\ deleted \in IF search.type \in {"near", "fuzzy"} THEN Deletions(fsas)
                 ELSE {[i \in DOMAIN fsas |-> {}]}
  /\ kind = Plan(search, fsas).kind
  /\ from = Plan(search, fsas).path
  /\ lookup = IF search.type = "near" THEN SubSeq(search.query, search.prefix + 1, Len(search.query))
              ELSE <<>>
  /\ built = FALSE /\ traverser_queue_ = {} /\ equal_states_ = 1 /\ pruned = FALSE
  /\ view = [NoView EXCEPT !.over = FALSE] /\ min_weight = 0

InitMatching ==
  /\ InitFree \/ InitSearch
  /\ m = NewMatcher(search)
  /\ found = <<>> /\ phase = "new"

NextMatching ==
  \/ search.type = "free" /\ Next /\ UNCHANGED matchVars
  \/ search.type # "free" /\ (Create \/ Visit \/ Move \/ Finish \/ FindText)
  \/ \E weight \in Values : RaiseMinWeight(weight)

SpecMatching == InitMatching /\ [][NextMatching]_<<vars, matchVars>>

-----------------------------------------------------------------------------
(* What the lookups promise.                                               *)

Holding(key) == {i \in DOMAIN fsas : key \in DOMAIN fsas[i]}

\* The segment a key is answered from: the newest one that has it.  Only a key
\* that is the exact prefix itself is answered from the oldest, with its value
\* and unless it was deleted there (fuzzy_matching.h:298); near matching takes the
\* newest for this one too.
AnsweredFrom(key) ==
  IF key = from /\ search.type # "near" THEN Min(Holding(key)) ELSE Max(Holding(key))

LiveKeys ==
  {key \in UNION {DOMAIN fsas[i] : i \in DOMAIN fsas} : key \notin deleted[AnsweredFrom(key)]}

ValueOf(key) == fsas[AnsweredFrom(key)][key]

FoundKeys == {found[i].key : i \in DOMAIN found}

FoundOnce == \A i, j \in DOMAIN found : found[i].key = found[j].key => i = j

FoundValues == \A i \in DOMAIN found : found[i].value = ValueOf(found[i].key)

\* GetFuzzy returns every key that is not deleted, starts with the exact
\* prefix and is within the edit distance, once, with its newest value - the
\* exact prefix itself with its oldest - and its distance, and no other:
\* whatever rows of the matrix are left over from other candidates, whatever
\* was pruned, whichever bytes make up a character and in whichever segments
\* the keys are.
FuzzyFindsExactly ==
  search.type = "fuzzy" /\ phase = "done" =>
    LET query == CodePoints(search.query)
        near  == {key \in LiveKeys : /\ IsPrefix(from, key)
                                     /\ Distance(query, CodePoints(key)) <= search.max}
    IN  /\ FoundKeys = near /\ FoundOnce /\ FoundValues
        /\ \A i \in DOMAIN found : /\ found[i].string = found[i].key
                                   /\ found[i].score = Distance(query, CodePoints(found[i].key))

\* GetNear returns the keys that share the longest prefix with the query,
\* deleted ones not counted, with their newest value; greedy, it returns all
\* below the exact prefix.  Traversers of several segments do not stay in step
\* (comparable_state_traverser.h:234): a key may come again with the value of an
\* older segment, but only of one that has it and in which it is not deleted, and
\* with no value twice.  Of a single segment each key comes once, never one
\* that shares less before one that shares more, and, not greedy and without
\* deletes, besides the closest only keys that are themselves a prefix of the
\* query.
NearFindsClosest ==
  search.type = "near" /\ phase = "done" =>
    LET Shared(key) == Cardinality({n \in 1 .. Len(key) : IsPrefix(SubSeq(key, 1, n), search.query)})
        below == {key \in LiveKeys : IsPrefix(from, key) /\ key # from}
        most  == Max({0} \cup {Shared(key) : key \in below})
        OnTheWay(key) == IsPrefix(key, search.query)
        single == Len(fsas) = 1
    IN  /\ \A i \in DOMAIN found : \E s \in Holding(found[i].key) :
             /\ found[i].value = fsas[s][found[i].key]
             /\ found[i].key = from \/ found[i].key \notin deleted[s]
        /\ \A i, j \in DOMAIN found :
             found[i].key = found[j].key /\ found[i].value = found[j].value => i = j
        /\ \A key \in below : Shared(key) = most \/ search.greedy =>
             \E i \in DOMAIN found : found[i].key = key /\ found[i].value = ValueOf(key)
        /\ single => /\ FoundOnce /\ FoundKeys \ {from} \subseteq below
                     /\ \A i, j \in DOMAIN found :
                          i < j => \/ OnTheWay(found[i].key)
                                   \/ Shared(found[i].key) >= Shared(found[j].key)
                     /\ ~search.greedy /\ deleted[1] = {} =>
                          \A key \in FoundKeys : OnTheWay(key) \/ Shared(key) = most

\* Prefix and multiword completion return every key below the query - with
\* the words sorted and no further word in front of the separator - once and
\* with its newest value; a minimum weight set in between hides lighter keys
\* and no other; with top_n, the n heaviest are among the matches.
CompletesExactly ==
  search.type \in {"all", "prefix", "multiword"} /\ phase = "done" =>
    LET Rest(key) == SubSeq(key, Len(from) + 1, Len(key))
        FewWords(key) ==
          \A i \in DOMAIN Rest(key) : Rest(key)[i] = SPACE =>
            \E j \in 1 .. i : Rest(key)[j] = SEPARATOR
        Text(key) ==
          LET at == {i \in DOMAIN Rest(key) : Rest(key)[i] = SEPARATOR}
          IN  IF at = {} THEN key ELSE SubSeq(Rest(key), Max(at) + 1, Len(Rest(key)))
        all   == {key \in LiveKeys : IsPrefix(from, key) /\ (search.type = "multiword" => FewWords(key))}
        heavy == {key \in all : ValueOf(key) >= min_weight \/ key = from}
        Heavier(key) == {k \in all \ {from} : ValueOf(k) > ValueOf(key)}
        best  == {key \in heavy : key = from \/ Cardinality(Heavier(key)) < search.top}
    IN  /\ FoundOnce /\ FoundKeys \subseteq all
        /\ (IF search.top > 0 THEN best ELSE heavy) \subseteq FoundKeys
        /\ min_weight = 0 => FoundValues
        /\ search.type = "multiword" =>
             \A i \in DOMAIN found : found[i].key # from => found[i].string = Text(found[i].key)

\* Fuzzy multiword completion misses no key that continues something within
\* the edit distance of the query and has as many words, and returns only
\* keys that some part of the query leads to within that distance.  It holds
\* for an exact prefix inside of the first word: the prefix is walked along the
\* query as it was given (fuzzy_multiword_completion_matching.h: FromSingleFsa).
FuzzyCompletes ==
  search.type = "fuzzy_multiword" /\ phase = "done" =>
    LET query == CodePoints(BagOfWordsPartial(search.query))
        Start(key, n) == SubSeq(CodePoints(key), 1, n)
        Part(n) == SubSeq(query, 1, n)
        words == Len(Tokens(search.query))
        SameWords(key) ==
          LET at == {i \in DOMAIN key : key[i] = SEPARATOR}
          IN  at = {} \/ Len(Tokens(SubSeq(key, 1, Min(at)))) = words
        wanted == {key \in LiveKeys : /\ IsPrefix(from, key) /\ SameWords(key)
                     /\ (key = from => search.prefix = Len(query))
                     /\ \E n \in 0 .. Len(CodePoints(key)) :
                          Distance(query, Start(key, n)) <= search.max}
    IN  /\ wanted \subseteq FoundKeys /\ FoundOnce /\ FoundValues
        /\ \A key \in FoundKeys :
             /\ IsPrefix(from, key) /\ SameWords(key)
             /\ \E n \in 0 .. Len(query), l \in 0 .. Len(CodePoints(key)) :
                  /\ n = Len(query) \/ l = Len(CodePoints(key))
                  /\ Distance(Part(n), Start(key, l)) <= search.max

\* LookupText finds the longest key that ends with a word, at the begin of the
\* text and of every word behind it, in the order of the text.  The one word it
\* passes over is the one behind a single space that the text begins with
\* (Dictionary::LookupText, whose loop starts at position 1).
TextFindsLongest ==
  search.type = "text" /\ phase = "done" =>
    LET text   == search.query
        Starts == {0} \cup {n \in 2 .. Len(text) - 1 : text[n] = SPACE}
        At(n)  == {k \in DOMAIN fsas[1] : /\ IsPrefix(k, SubSeq(text, n + 1, Len(text)))
                                          /\ n + Len(k) = Len(text) \/ text[n + Len(k) + 1] = SPACE}
        hits   == {n \in Starts : At(n) # {}}
        order  == SetToSortSeq(hits, <)
    IN  /\ Len(found) = Cardinality(hits)
        /\ \A i \in DOMAIN found :
             /\ found[i].key \in At(order[i])
             /\ found[i].value = fsas[1][found[i].key]
             /\ \A k \in At(order[i]) : Len(k) <= Len(found[i].key)

=============================================================================
