----------------------------- MODULE SearchIndex -----------------------------
(***************************************************************************)
(* Tokenizer, IndexBuilder and the uncached part of SearchEngine::search.  *)
(* A text is a sequence of bytes.                                          *)
(*                                                                         *)
(* The bounds of the code, 128, 256 and 100, are constants, so that small  *)
(* texts and few records go beyond them.                                   *)
(***************************************************************************)
EXTENDS Naturals, Sequences, FiniteSets, SequencesExt

CONSTANTS MaxTokenBytes, MaxQueryBytes, MaxLimit

ASSUME LimitsAssumption == {MaxTokenBytes, MaxQueryBytes, MaxLimit} \subseteq Nat \ {0}

Text == Seq(0..255)

-----------------------------------------------------------------------------
\* Tokenizer.

Space == 32

\* Blank . _ - / \ and the brackets.
IsSeparator(ch) == ch \in {Space, 46, 95, 45, 47, 92, 40, 41, 91, 93, 123, 125}

IsAsciiSpace(ch) == ch = Space \/ ch \in 9..13

AsciiLower(ch) == IF ch \in 65..90 THEN ch + 32 ELSE ch

NormalizeIndexText(text) == [i \in DOMAIN text |-> AsciiLower(text[i])]

TrimAscii(text) ==
    LET kept == {i \in DOMAIN text : ~IsAsciiSpace(text[i])}
    IN  IF kept = {} THEN << >> ELSE SubSeq(text, Min(kept), Max(kept))

\* What tokenize keeps while it reads: the tokens and the one it is in.
Flush(s) == IF s.current = << >> THEN s ELSE [tokens |-> Append(s.tokens, s.current), current |-> << >>]

\* The bytes of a token beyond the limit are dropped.
TakeByte(s, ch) ==
    IF IsSeparator(ch) THEN Flush(s)
    ELSE IF Len(s.current) < MaxTokenBytes THEN [s EXCEPT !.current = Append(@, AsciiLower(ch))] ELSE s

\* What it has kept after each byte.
Reading(text) ==
    LET reading[n \in 0..Len(text)] ==
            IF n = 0 THEN [tokens |-> << >>, current |-> << >>] ELSE TakeByte(reading[n - 1], text[n])
    IN  reading

Tokenize(text) == Flush(Reading(text)[Len(text)]).tokens

-----------------------------------------------------------------------------
\* IndexBuilder.  A record has the texts of three paths.

RecordTokens(record) ==
    UNION {ToSet(Tokenize(text)) : text \in {record.file_name, record.extension, record.relative_path}}

NormalizedRecordName(record) ==
    NormalizeIndexText(record.file_name \o <<Space>> \o record.relative_path)

\* The lexicographic order of std::string.
Less(left, right) ==
    \E i \in 1..Len(right) :
        /\ \A j \in 1..i - 1 : j <= Len(left) /\ left[j] = right[j]
        /\ i > Len(left) \/ left[i] < right[i]

\* std::sort of a set, where Before orders any two of its elements.
Sorted(S, Before(_, _)) ==
    [i \in 1..Cardinality(S) |-> CHOOSE e \in S : Cardinality({other \in S : Before(other, e)}) = i - 1]

\* build: ids are given anew, by position; a posting list is a set of ids.
Snapshot(records) ==
    LET ids == 1..Len(records)
        has == [id \in ids |-> RecordTokens(records[id])]
        token_index == [token \in UNION {has[id] : id \in ids} |-> {id \in ids : token \in has[id]}]
    IN  [records |-> records,
         normalized_names |-> [id \in ids |-> NormalizedRecordName(records[id])],
         token_index |-> token_index,
         sorted_tokens |-> Sorted(DOMAIN token_index, Less)]

-----------------------------------------------------------------------------
\* SearchEngine.

\* From lower_bound on, as long as the prefix is there.
MergePrefixPostings(snapshot, token) ==
    LET tokens == snapshot.sorted_tokens
        from == 1 + Cardinality({i \in DOMAIN tokens : Less(tokens[i], token)})
        run == {i \in from..Len(tokens) : \A j \in from..i : IsPrefix(token, tokens[j])}
    IN  UNION {snapshot.token_index[tokens[i]] : i \in run}

CandidatesForToken(snapshot, token) ==
    IF token \in DOMAIN snapshot.token_index THEN snapshot.token_index[token]
    ELSE MergePrefixPostings(snapshot, token)

ScoreIndexHit(record, normalized_query, query_tokens) ==
    LET name == NormalizeIndexText(record.file_name)
        tokens == RecordTokens(record)
    IN  CASE name = normalized_query -> 100
          [] name # normalized_query /\ IsPrefix(normalized_query, name) -> 80
          [] ~IsPrefix(normalized_query, name) /\ query_tokens \cap tokens # {} -> 60
          [] OTHER -> IF \E q \in query_tokens, t \in tokens : IsPrefix(q, t) THEN 50 ELSE 30

\* A hit with what it is ranked by.
RankedHit(record, id, score) ==
    [id |-> id, score |-> score,
     length |-> Len(record.file_name), path |-> NormalizeIndexText(record.relative_path)]

\* Mutant: the shorter name counts before the score.
LengthFirst(left, right) ==
    \/ left.length < right.length
    \/ left.length = right.length /\ left.score > right.score
    \/ left.length = right.length /\ left.score = right.score /\ Less(left.path, right.path)

RankedHitLess(left, right) ==
    \/ left.score > right.score
    \/ left.score = right.score /\ left.length < right.length
    \/ left.score = right.score /\ left.length = right.length /\ Less(left.path, right.path)

\* Hits that rank the same, whose paths differ only in case, come in any order; here
\* in that of their ids.
InOrder(left, right) ==
    RankedHitLess(left, right) \/ (~RankedHitLess(right, left) /\ left.id < right.id)

TopHits(ranked, limit) ==
    LET hits == Sorted(ranked, InOrder)
    IN  SubSeq(hits, 1, IF Len(hits) < limit THEN Len(hits) ELSE limit)

BuildIndexHits(snapshot, candidates, normalized_query, query_tokens, limit) ==
    TopHits({RankedHit(snapshot.records[id], id,
                       ScoreIndexHit(snapshot.records[id], normalized_query, query_tokens)) :
                id \in candidates}, limit)

\* Mutant: the search for a substring stops as soon as there are enough to answer.
SubstringHitsToLimit(snapshot, normalized_query, limit) ==
    LET names == snapshot.normalized_names
        found == {id \in DOMAIN names : \E i \in 1..Len(names[id]) :
                     IsPrefix(normalized_query, SubSeq(names[id], i, Len(names[id])))}
        first == {id \in found : Cardinality({other \in found : other < id}) < limit}
    IN  TopHits({RankedHit(snapshot.records[id], id, 30) : id \in first}, limit)

\* Only the first MaxLimit records whose name has the query are ranked.
BuildSubstringHits(snapshot, normalized_query, limit) ==
    LET names == snapshot.normalized_names
        found == {id \in DOMAIN names : \E i \in 1..Len(names[id]) :
                     IsPrefix(normalized_query, SubSeq(names[id], i, Len(names[id])))}
        first == {id \in found : Cardinality({other \in found : other < id}) < MaxLimit}
    IN  TopHits({RankedHit(snapshot.records[id], id, 30) : id \in first}, limit)

ClampLimit(limit) == IF limit = 0 \/ limit > MaxLimit THEN MaxLimit ELSE limit

\* The intersection of the candidates of all tokens, smallest first, of which there is one.
Candidates(snapshot, query_tokens) ==
    {id \in DOMAIN snapshot.records : \A token \in query_tokens : id \in CandidatesForToken(snapshot, token)}

\* What is answered, but for the cache.
Search(snapshot, query, limit) ==
    LET normalized_query == NormalizeIndexText(TrimAscii(query))
        query_tokens == ToSet(Tokenize(normalized_query))
        candidates == Candidates(snapshot, query_tokens)
    IN  CASE Len(query) > MaxQueryBytes -> [code |-> "InvalidArgument", hits |-> << >>]
          [] Len(query) <= MaxQueryBytes /\ query_tokens = {} -> [code |-> "Ok", hits |-> << >>]
          [] OTHER ->
               [code |-> "Ok",
                hits |-> IF candidates # {}
                         THEN BuildIndexHits(snapshot, candidates, normalized_query, query_tokens, ClampLimit(limit))
                         ELSE BuildSubstringHits(snapshot, normalized_query, ClampLimit(limit))]
=============================================================================
