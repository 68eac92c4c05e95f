------------------------------ MODULE Chunking ------------------------------
(***************************************************************************)
(* The chunks of a document (structural_chunks_from_manifest and           *)
(* _chunks_for_group of document_indexing.py).  A document is a sequence   *)
(* of blocks, headings or paragraphs, each a number of tokens; the anchor  *)
(* of a block is its position, and a token is a pair of its anchor and its *)
(* place in the block.                                                     *)
(***************************************************************************)
EXTENDS Naturals, Sequences, SequencesExt

CONSTANTS
    MaxTokens,    \* MAX_CHUNK_TOKENS
    ChunkOverlap, \* CHUNK_OVERLAP_TOKENS
    Lengths,      \* tokens of a block (BOUND)
    MaxBlocks     \* BOUND on the blocks

ASSUME ChunkingAssumption ==
    /\ MaxTokens \in Nat \ {0} /\ ChunkOverlap \in 1..(MaxTokens - 1)
    /\ Lengths \subseteq Nat \ {0} /\ MaxBlocks \in Nat

VARIABLE blocks   \* the document

ChunkingInit == blocks = <<>>

AppendBlock(kind, length) ==
    /\ Len(blocks) < MaxBlocks
    /\ blocks' = Append(blocks, [kind |-> kind, length |-> length])

ChunkingNext == \E kind \in {"heading", "paragraph"}, n \in Lengths : AppendBlock(kind, n)

ChunkingSpec == ChunkingInit /\ [][ChunkingNext]_blocks

-----------------------------------------------------------------------------
TokensOf(anchor) == [p \in 1..blocks[anchor].length |-> <<anchor, p>>]

\* a heading begins a section, and so does the first block
AddBlock(groups, anchor) ==
    IF groups = <<>> \/ blocks[anchor].kind = "heading"
    THEN Append(groups, TokensOf(anchor))
    ELSE [groups EXCEPT ![Len(groups)] = @ \o TokensOf(anchor)]

Groups == FoldLeft(AddBlock, <<>>, [anchor \in 1..Len(blocks) |-> anchor])

\* _chunk_from_tokens: the id of a chunk is made of its anchors and its start
ChunkOf(tokens, start) ==
    [tokens |-> tokens, start |-> start, anchors |-> {tokens[i][1] : i \in DOMAIN tokens}]

\* Mutant: a full chunk is followed by the overlap without the token that
\* did not fit
DropsAToken(state, token) ==
    IF Len(state.current) < MaxTokens
    THEN [state EXCEPT !.current = Append(@, token)]
    ELSE LET kept == SubSeq(state.current, MaxTokens - ChunkOverlap + 1, MaxTokens)
         IN  [chunks |-> Append(state.chunks, ChunkOf(state.current, state.start)),
              start |-> state.start + MaxTokens - ChunkOverlap, current |-> kept]
\* the loop of _chunks_for_group: a chunk that is full when another token comes
\* is emitted, and its last tokens begin the next one
Accumulate(state, token) ==
    IF Len(state.current) < MaxTokens
    THEN [state EXCEPT !.current = Append(@, token)]
    ELSE LET kept == SubSeq(state.current, MaxTokens - ChunkOverlap + 1, MaxTokens)
         IN  [chunks |-> Append(state.chunks, ChunkOf(state.current, state.start)),
              start |-> state.start + MaxTokens - ChunkOverlap,
              current |-> Append(kept, token)]

ChunksOfGroup(tokens) ==
    IF Len(tokens) <= MaxTokens THEN <<ChunkOf(tokens, 0)>>
    ELSE LET end == FoldLeft(Accumulate, [chunks |-> <<>>, start |-> 0, current |-> <<>>], tokens)
         IN  Append(end.chunks, ChunkOf(end.current, end.start))

\* structural_chunks_from_manifest
DocumentChunks == FlattenSeq([i \in DOMAIN Groups |-> ChunksOfGroup(Groups[i])])

-----------------------------------------------------------------------------
\* Whatever the lengths of the sections, and at the limits of a chunk: every
\* token is in a chunk, no chunk has more than may be, a chunk is a run of one
\* section that begins where it says, and no two have the same id (it is the
\* key of the row).
ChunksCoverTheText ==
    LET all == DocumentChunks
    IN  /\ UNION {{all[i].tokens[p] : p \in DOMAIN all[i].tokens} : i \in DOMAIN all}
            = UNION {{<<a, p>> : p \in 1..blocks[a].length} : a \in DOMAIN blocks}
        /\ \A i \in DOMAIN all :
            /\ Len(all[i].tokens) \in 1..MaxTokens
            /\ \E g \in DOMAIN Groups :
                /\ all[i].start + Len(all[i].tokens) <= Len(Groups[g])
                /\ \A p \in DOMAIN all[i].tokens : all[i].tokens[p] = Groups[g][all[i].start + p]
        /\ \A i, j \in DOMAIN all : i # j =>
            <<all[i].anchors, all[i].start>> # <<all[j].anchors, all[j].start>>
=============================================================================
