------------------------------- MODULE Indexing -------------------------------
(***************************************************************************)
(* From the tree to the answers: FileScanner's output, in whatever order   *)
(* its workers pushed the records, is built into a snapshot, which then    *)
(* answers searches.                                                       *)
(***************************************************************************)
EXTENDS FileScanner, SearchIndex

CONSTANTS Name,        \* the name of each node, a text
          Queries,     \* the queries that are looked at, texts
          Limits       \* their limits

ASSUME TextAssumption ==
    /\ \A n \in Nodes : Name[n] \in Text \ {<< >>}
    /\ Queries \subseteq Text
    /\ Limits \subseteq Nat

VARIABLES build,       \* where IndexBuilder::build is
          input,       \* the records it was given
          snapshot     \* what it returned

None == [records |-> << >>]

buildVars == <<build, input, snapshot>>
indexingVars == <<scanVars, buildVars>>

IndexingInit == Init /\ build = "none" /\ input = << >> /\ snapshot = None

\* The extension begins at the last dot that is not the first byte.
Extension(name) ==
    LET dots == {i \in 2..Len(name) : name[i] = 46}
    IN  IF dots = {} THEN << >> ELSE SubSeq(name, Max(dots), Len(name))

\* lexically_relative: the names on the path, joined by slashes.
Joined(path) ==
    LET joined[n \in 0..Len(path)] ==
            IF n = 0 THEN << >>
            ELSE IF joined[n - 1] = << >> THEN Name[path[n]] ELSE joined[n - 1] \o <<47>> \o Name[path[n]]
    IN  joined

RelativePath(path) == Joined(path)[Len(path)]

FileRecord(path) ==
    LET name == Name[path[Len(path)]]
    IN  [file_name |-> name, extension |-> Extension(name), relative_path |-> RelativePath(path)]

\* The output of the scan is moved to build, and the scan's locals are gone.  build
\* looks at the token first, and again before every record and every token.
BuildBegins ==
    /\ result = "ok"
    /\ result' = "taken"
    /\ build' = IF cancelled THEN "cancelled" ELSE "building"
    /\ input' = records
    /\ records' = << >> /\ outcome' = << >> /\ visited' = {}
    /\ stats' = [s \in DOMAIN stats |-> 0]
    /\ accepted' = << >> /\ begun' = 0 /\ finished' = {}
    /\ UNCHANGED <<envVars, cancelled, pc, stack, refused, closed, snapshot>>

BuildIsCancelled ==
    /\ build = "building"
    /\ cancelled
    /\ build' = "cancelled"
    /\ UNCHANGED <<scanVars, input, snapshot>>

\* The token may have been cancelled since it was last looked at.
BuildEnds ==
    /\ build = "building"
    /\ build' = "built"
    /\ snapshot' = Snapshot([i \in DOMAIN input |-> FileRecord(input[i])])
    /\ UNCHANGED <<scanVars, input>>

BuildStep == BuildBegins \/ BuildIsCancelled \/ BuildEnds

IndexingNext ==
    \/ Next /\ UNCHANGED buildVars
    \/ BuildStep

\* The fairness is that of FairSpec.
IndexingSpec ==
    /\ IndexingInit /\ [][IndexingNext]_indexingVars
    /\ WF_indexingVars(Walk /\ UNCHANGED buildVars)
    /\ WF_indexingVars(TaskBegins /\ UNCHANGED buildVars)
    /\ WF_indexingVars(TaskEnds /\ UNCHANGED buildVars)

-----------------------------------------------------------------------------
\* Properties.

\* The scan's invariant outlives its output, which is taken once, and what is
\* searched is the index of the entries that were recorded, nothing before or else.
IndexingInv ==
    /\ IInv
    /\ build \in {"none", "cancelled", "building", "built"}
    /\ build # "none" <=> result = "taken"
    /\ input \in Seq(Seq(Nodes))
    /\ \A i \in DOMAIN input : input[i] # << >>
    /\ snapshot = IF build = "built" THEN Snapshot([i \in DOMAIN input |-> FileRecord(input[i])]) ELSE None

\* The bytes i to j are a word, or what there is of it up to j.
IsWordUpTo(text, i, j) ==
    /\ i <= j
    /\ \A k \in i..j : ~IsSeparator(text[k])
    /\ i = 1 \/ IsSeparator(text[i - 1])

\* A word in lower case, without what is beyond the limit.
WordAt(text, i, j) ==
    NormalizeIndexText(SubSeq(text, i, IF j - i < MaxTokenBytes THEN j ELSE i + MaxTokenBytes - 1))

\* What the tokens of a text are, said without reading it from left to right.
Words(text) ==
    {WordAt(text, p[1], p[2]) : p \in {q \in (1..Len(text)) \X (1..Len(text)) :
        /\ IsWordUpTo(text, q[1], q[2])
        /\ q[2] = Len(text) \/ IsSeparator(text[q[2] + 1])}}

\* The records that answer a query by its tokens, said without an index, where has
\* gives those of each: for each token of the query the record has it or, if no
\* record has, one that begins with it.
Answers(has, tokens) ==
    {id \in DOMAIN has : \A q \in tokens :
        \/ q \in has[id]
        \/ /\ \A other \in DOMAIN has : q \notin has[other]
           /\ \E t \in has[id] : IsPrefix(q, t)}

HasSubstring(text, part) == \E i, j \in 1..Len(text) : SubSeq(text, i, j) = part

\* hits is a ranking of some of the hits in good, as many as limit allows, and
\* better than the rest.
IsTopOf(hits, good, limit) ==
    /\ ToSet(hits) \subseteq good
    /\ Cardinality(ToSet(hits)) = Len(hits)
    /\ Len(hits) = Min({limit, Cardinality(good)})
    /\ \A i, j \in 1..Len(hits) : i < j => ~RankedHitLess(hits[j], hits[i])
    /\ \A hit \in ToSet(hits), other \in good \ ToSet(hits) : ~RankedHitLess(other, hit)

\* An answer depends on what was found and not on the order in which the workers
\* pushed it: it is the best of the records that answer by their words or, if none does,
\* of those whose name and path have the query in them, unless these are more than
\* MaxLimit, where it is a ranking of MaxLimit of them (tokenize, token_index,
\* sorted_tokens and lower_bound; partial_sort; the fallback).
AnswersAreExact ==
    build = "built" =>
        LET all == snapshot.records
            has == [id \in DOMAIN all |->
                UNION {Words(text) : text \in {all[id].file_name, all[id].extension, all[id].relative_path}}]
        IN  \A query \in Queries :
            LET normalized == NormalizeIndexText(TrimAscii(query))
                tokens == Words(normalized)
                found == Answers(has, tokens)
                substring == {id \in DOMAIN all : HasSubstring(NormalizedRecordName(all[id]), normalized)}
                good == {RankedHit(all[id], id, ScoreIndexHit(all[id], normalized, tokens)) : id \in found}
            IN  Len(query) <= MaxQueryBytes /\ tokens # {} =>
                \A limit \in Limits :
                    LET hits == Search(snapshot, query, limit).hits
                    IN  IF found # {} THEN IsTopOf(hits, good, ClampLimit(limit))
                        ELSE \E some \in SUBSET substring :
                                /\ Cardinality(some) = Min({MaxLimit, Cardinality(substring)})
                                /\ IsTopOf(hits, {RankedHit(all[id], id, 30) : id \in some}, ClampLimit(limit))

\* A file that was recorded is found under its own name, whatever its case, and
\* comes before all that is not called so (score_index_hit, ranked_hit_less).
NameIsFoundFirst ==
    build = "built" => \A r \in ToSet(snapshot.records) :
        LET name == r.file_name
            namesakes == {id \in DOMAIN snapshot.records :
                NormalizeIndexText(snapshot.records[id].file_name) = NormalizeIndexText(name)}
            hits == Search(snapshot, name, 0).hits
        IN  TrimAscii(name) = name /\ Len(name) <= MaxQueryBytes /\ Tokenize(name) # << >> =>
               /\ Len(hits) >= Min({MaxLimit, Cardinality(namesakes)})
               /\ \A i \in 1..Min({Len(hits), Cardinality(namesakes)}) : hits[i].id \in namesakes
=============================================================================
