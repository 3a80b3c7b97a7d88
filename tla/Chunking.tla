------------------------------ MODULE Chunking ------------------------------
(***************************************************************************)
(* How process_document cuts a document into chunks and has them embedded: *)
(* the loop of chunking_service.chunk_pages over the paragraphs, then that *)
(* of embedding_service.generate_embeddings over batches of chunks.        *)
(* A paragraph is its number of tokens, a part of one is a range of them,  *)
(* some of which may be unreadable in the part's text.  Pages only label   *)
(* the chunks and are left out.                                            *)
(***************************************************************************)
EXTENDS Naturals, SequencesExt

CONSTANTS
    Document,    \* what may be uploaded: sequences of the paragraphs' token counts
    ChunkSize,   \* chunk_size_tokens
    Overlap,     \* chunk_overlap_tokens
    BatchSize,   \* _BATCH_SIZE
    CharTokens   \* the most tokens that one character takes

ASSUME ChunkingAssumption ==
    /\ Document \subseteq Seq(Nat \ {0})
    /\ ChunkSize \in Nat \ {0} /\ BatchSize \in Nat \ {0}
    /\ Overlap \in Nat /\ CharTokens \in Nat \ {0}

VARIABLES
    doc,       \* the paragraphs
    phase,     \* "packing", "embedding", "indexed" or "failed"
    next,      \* the loop's paragraph
    window,    \* the parts of the chunk being built
    tokens,    \* window_tokens
    chunks,    \* the chunks made so far
    start,     \* where the next batch starts
    vectors    \* the embeddings received so far, each by its chunk's number

vars == <<doc, phase, next, window, tokens, chunks, start, vectors>>

Part(p, from, to, torn) == [para |-> p, from |-> from, to |-> to, torn |-> torn]
Whole(p) == Part(p, 0, doc[p], {})
Size(part) == part.to - part.from
SizeOf(parts) ==
    LET upTo[i \in 0..Len(parts)] == IF i = 0 THEN 0 ELSE upTo[i - 1] + Size(parts[i])
    IN  upTo[Len(parts)]

Init ==
    /\ doc \in Document
    /\ phase = "packing" /\ next = 1
    /\ window = <<>> /\ tokens = 0
    /\ chunks = <<>> /\ start = 0 /\ vectors = <<>>

\* The chunks made so far and the one being built, which finalize_window adds.
Cut == IF window = <<>> THEN chunks ELSE Append(chunks, [parts |-> window, tokens |-> tokens])

\* Where an end of the window may begin to fit into the overlap.
Fits == {i \in 1..(Len(window) + 1) : SizeOf(SubSeq(window, i, Len(window))) <= Overlap}

\* Mutant: the paragraph that does not fit any more is taken too.
CarryOneMore == SubSeq(window, IF Min(Fits) = 1 THEN 1 ELSE Min(Fits) - 1, Len(window))

\* carry_overlap: the last paragraphs that fit into the overlap.
CarryOverlap == SubSeq(window, Min(Fits), Len(window))

\* Where a paragraph is cut, by the number of tokens before the cut.
Cuts(p) == {cut \in 1..(doc[p] - 1) : cut % ChunkSize = 0}

\* The characters that may lie across a cut, by their first and last tokens.
Straddling(p) ==
    {char \in (1..doc[p]) \X (1..doc[p]) :
        /\ char[2] < char[1] + CharTokens
        /\ \E cut \in Cuts(p) : char[1] <= cut /\ cut < char[2]}

\* A range of a paragraph's tokens, decoded: what it has of a character across
\* a cut is not valid text and becomes replacement characters.
Decode(p, from, to, chars) ==
    Part(p, from, to,
         {token \in (from + 1)..to : \E char \in chars : token \in char[1]..char[2]})

\* _hard_split
Pieces(p, chars) ==
    [i \in 1..((doc[p] + ChunkSize - 1) \div ChunkSize) |->
        Decode(p, (i - 1) * ChunkSize,
               IF i * ChunkSize < doc[p] THEN i * ChunkSize ELSE doc[p], chars)]

\* A piece is a chunk.  Its count, taken of the decoded text, is left out.
PieceChunks(p, chars) ==
    [i \in DOMAIN Pieces(p, chars) |-> [parts |-> <<Pieces(p, chars)[i]>>, tokens |-> 0]]

\* Mutant: the window is not emptied.
SplitParagraphKeepingWindow ==
    /\ phase = "packing" /\ next <= Len(doc) /\ doc[next] > ChunkSize
    /\ chunks' = Cut \o PieceChunks(next, {})
    /\ next' = next + 1
    /\ UNCHANGED <<doc, phase, window, tokens, start, vectors>>

\* A paragraph larger than a chunk is cut.
SplitParagraph ==
    /\ phase = "packing" /\ next <= Len(doc) /\ doc[next] > ChunkSize
    /\ \E chars \in SUBSET Straddling(next) : chunks' = Cut \o PieceChunks(next, chars)
    /\ window' = <<>> /\ tokens' = 0
    /\ next' = next + 1
    /\ UNCHANGED <<doc, phase, start, vectors>>

\* Mutant: the tokens of the finished chunk are counted into the next one.
PackParagraphCountingOn ==
    /\ phase = "packing" /\ next <= Len(doc) /\ doc[next] <= ChunkSize
    /\ LET full == window # <<>> /\ tokens + doc[next] > ChunkSize
           kept == IF full THEN CarryOverlap ELSE window
       IN  /\ chunks' = IF full THEN Cut ELSE chunks
           /\ window' = Append(kept, Whole(next))
           /\ tokens' = tokens + doc[next]
    /\ next' = next + 1
    /\ UNCHANGED <<doc, phase, start, vectors>>

\* Any other one joins the window, which is first made a chunk if it is full.
PackParagraph ==
    /\ phase = "packing" /\ next <= Len(doc) /\ doc[next] <= ChunkSize
    /\ LET full == window # <<>> /\ tokens + doc[next] > ChunkSize
           kept == IF full THEN CarryOverlap ELSE window
       IN  /\ chunks' = IF full THEN Cut ELSE chunks
           /\ window' = Append(kept, Whole(next))
           /\ tokens' = (IF full THEN SizeOf(kept) ELSE tokens) + doc[next]
    /\ next' = next + 1
    /\ UNCHANGED <<doc, phase, start, vectors>>

\* The end of chunk_pages; process_document fails without chunks.
EndPacking ==
    /\ phase = "packing" /\ next > Len(doc)
    /\ chunks' = Cut
    /\ phase' = IF chunks' = <<>> THEN "failed" ELSE "embedding"
    /\ window' = <<>>
    /\ UNCHANGED <<doc, next, tokens, start, vectors>>

\* The texts of a batch, by the numbers of their chunks.
Batch == [i \in 1..(IF Len(chunks) - start < BatchSize THEN Len(chunks) - start ELSE BatchSize)
            |-> start + i]

\* The service returns the vectors of the texts in their order, or one less or
\* one more.
Responses == {Batch, Front(Batch), Append(Batch, 0)}

\* Mutant: the number of vectors is not compared.
AcceptAny(response) ==
    vectors' = vectors \o response /\ start' = start + BatchSize /\ phase' = phase

Accept(response) ==
    IF Len(response) = Len(Batch)
    THEN vectors' = vectors \o response /\ start' = start + BatchSize /\ phase' = phase
    ELSE phase' = "failed" /\ UNCHANGED <<vectors, start>>

\* One call of the embedding service.
EmbedBatch ==
    /\ phase = "embedding" /\ start < Len(chunks)
    /\ \E response \in Responses : Accept(response)
    /\ UNCHANGED <<doc, next, window, tokens, chunks>>

\* The call fails, or a vector is empty.
EmbedFails ==
    /\ phase = "embedding" /\ start < Len(chunks)
    /\ phase' = "failed"
    /\ UNCHANGED <<doc, next, window, tokens, chunks, start, vectors>>

\* The rows are made of chunks and vectors, of which there must be as many.
MakeRows ==
    /\ phase = "embedding" /\ start >= Len(chunks)
    /\ phase' = IF Len(vectors) = Len(chunks) THEN "indexed" ELSE "failed"
    /\ UNCHANGED <<doc, next, window, tokens, chunks, start, vectors>>

Next == SplitParagraph \/ PackParagraph \/ EndPacking \/ EmbedBatch \/ EmbedFails \/ MakeRows

Spec == Init /\ [][Next]_vars

-----------------------------------------------------------------------------
\* The parts of a chunk that the one before it has, and those it does not.
Repeats(made, k) ==
    {i \in DOMAIN made[k].parts :
        k > 1 /\ \E j \in DOMAIN made[k - 1].parts : made[k - 1].parts[j] = made[k].parts[i]}
Fresh(made, k) == DOMAIN made[k].parts \ Repeats(made, k)
Shared(made, k) == SubSeq(made[k].parts, 1, Cardinality(Repeats(made, k)))

Within(part, paragraphs) ==
    /\ part.para \in 1..paragraphs
    /\ 0 <= part.from /\ part.from < part.to /\ part.to <= doc[part.para]
Before(part, other) ==
    part.para < other.para \/ (part.para = other.para /\ part.to <= other.from)
Holds(part, p, token) == part.para = p /\ part.from < token /\ token <= part.to

\* A token that a character across one of the paragraph's cuts may have.
AtCut(p, token) ==
    \E cut \in Cuts(p) : cut + 1 < token + CharTokens /\ token < cut + CharTokens

\* Read without their overlaps the chunks are the paragraphs read so far: no
\* token is left out, repeated or moved, however paragraphs are packed and cut,
\* and only where a paragraph was cut may one be unreadable.
Stitched ==
    /\ \A p \in 1..(next - 1) : \A token \in 1..doc[p] :
          \E k \in DOMAIN Cut : \E i \in Fresh(Cut, k) : Holds(Cut[k].parts[i], p, token)
    /\ \A k, l \in DOMAIN Cut : \A i \in Fresh(Cut, k), j \in Fresh(Cut, l) :
          k < l \/ (k = l /\ i < j) => Before(Cut[k].parts[i], Cut[l].parts[j])
    /\ \A k \in DOMAIN Cut : \A i \in DOMAIN Cut[k].parts :
          /\ Within(Cut[k].parts[i], next - 1)
          /\ \A token \in Cut[k].parts[i].torn : AtCut(Cut[k].parts[i].para, token)

\* A chunk begins with the end of the one before it, not more of it than the
\* overlap, repeats nothing else and goes on.
OverlapIsBounded ==
    \A k \in DOMAIN Cut :
        LET shared == Shared(Cut, k)
            n == Len(shared)
        IN  /\ Repeats(Cut, k) = 1..n /\ n < Len(Cut[k].parts)
            /\ SizeOf(shared) <= Overlap
            /\ k > 1 => LET before == Cut[k - 1].parts
                        IN  shared = SubSeq(before, Len(before) - n + 1, Len(before))

\* A chunk of whole paragraphs.
Packed(chunk) == Head(chunk.parts) = Whole(Head(chunk.parts).para)

\* The running count of a packed chunk is right, and is over the chunk size by
\* no more than what it repeats: the size is compared before the overlap is
\* carried over.  No part, a cut one included, is larger than a chunk.
WithinBudget ==
    \A k \in DOMAIN Cut :
        /\ \A i \in DOMAIN Cut[k].parts : Size(Cut[k].parts[i]) <= ChunkSize
        /\ Packed(Cut[k]) =>
              /\ Cut[k].tokens = SizeOf(Cut[k].parts)
              /\ Cut[k].tokens <= ChunkSize + SizeOf(Shared(Cut, k))

\* Every row has the embedding of its own chunk, whatever the batches.
EmbeddingsMatch ==
    phase = "indexed" => vectors = [k \in DOMAIN chunks |-> k]

\* "a chunk is built by packing whole paragraphs until the token budget would
\* be exceeded" (chunking_service.py:4), and
\* test_chunking_respects_size_and_preserves_paragraphs asserts that no chunk
\* has more tokens than its size.
RespectsSize ==
    \A k \in DOMAIN chunks : Packed(chunks[k]) => chunks[k].tokens <= ChunkSize
=============================================================================
