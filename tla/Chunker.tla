------------------------------- MODULE Chunker -------------------------------
(***************************************************************************)
(* How the text of a document becomes chunks.  A loader goes through the   *)
(* blocks of a file, the pages of a PDF, twenty rows of a CSV file or one   *)
(* PHMSA incident, and cuts each into windows of words of which adjacent   *)
(* ones overlap; the chunks of all blocks are then numbered through, since *)
(* document and number are how a citation finds its chunk again.           *)
(*                                                                         *)
(* A text is the number of its words; what they say, labels, token counts  *)
(* and metadata are left out.                                              *)
(***************************************************************************)
EXTENDS Naturals, Sequences

CONSTANTS
    Size,       \* words_per_chunk: 300
    Overlap,    \* words_overlap: 37
    ScanLimit,  \* OCR_MIN_CHARS, in words: a page with less is taken for a scan
    MaxWords,   \* bound: words of a block
    MaxBlocks   \* bound: blocks of a file

ASSUME ChunkerAssumption ==
    /\ {Size, Overlap, ScanLimit, MaxWords, MaxBlocks} \subseteq Nat
    /\ Overlap < Size

\* zip: several PHMSA files, one after the other
Kinds == {"pdf", "csv", "phmsa", "zip"}

VARIABLES
    kind,      \* the loader
    blocks,    \* words of each block read so far
    step,      \* what the loader does next
    start,     \* first word of the next window
    windows,   \* the chunks of the current block
    chunks,    \* all_chunks
    member     \* the chunks of the files of a zip before this one

chunkerVars == <<kind, blocks, step, start, windows, chunks, member>>

Chunk == [block : 1 .. MaxBlocks, first : 0 .. MaxWords, end : 0 .. MaxWords, index : Nat]

Block == Len(blocks)
Words == blocks[Block]

ChunkerTypeOK ==
    /\ kind \in Kinds
    /\ blocks \in Seq(0 .. MaxWords) /\ Block <= MaxBlocks
    /\ step \in {"block", "window", "collect", "reindex", "done"}
    /\ start \in 0 .. MaxWords
    /\ step = "window" => Block > 0 /\ start < Words
    /\ windows \in Seq(Chunk)
    /\ chunks \in Seq(Chunk)
    /\ member \in 0 .. Len(chunks)

ChunkerInit ==
    /\ kind \in Kinds
    /\ blocks = <<>> /\ step = "block" /\ start = 0
    /\ windows = <<>> /\ chunks = <<>> /\ member = 0

\* A text without words has no chunks.
Cut(words) ==
    /\ Block < MaxBlocks
    /\ blocks' = Append(blocks, words)
    /\ step' = IF words = 0 THEN "block" ELSE "window"
    /\ start' = 0 /\ windows' = <<>>
    /\ UNCHANGED <<kind, chunks, member>>

\* The text layer, or what OCR reads from a page that has next to none of it,
\* if it reads more; nothing where OCR fails or is not there.
PageText(layer, ocr) == IF layer < ScanLimit /\ ocr > layer THEN ocr ELSE layer

ReadPage ==
    /\ step = "block" /\ kind = "pdf"
    /\ \E layer, ocr \in 0 .. MaxWords : Cut(PageText(layer, ocr))

\* Each begins with the number of a row or the head of an incident.
ReadRows ==
    /\ step = "block" /\ kind # "pdf"
    /\ \E words \in 1 .. MaxWords : Cut(words)

WindowEnd == IF start + Size < Words THEN start + Size ELSE Words

AppendWindow ==
    windows' = Append(windows,
        [block |-> Block, first |-> start, end |-> WindowEnd, index |-> Len(windows)])

\* Faulty: a rest shorter than the overlap is not worth a window.
CutWindowWithoutRest ==
    /\ step = "window"
    /\ AppendWindow
    /\ IF Words - WindowEnd < Overlap
       THEN step' = "collect" /\ UNCHANGED start
       ELSE start' = WindowEnd - Overlap /\ UNCHANGED step
    /\ UNCHANGED <<kind, blocks, chunks, member>>

\* One turn of the loop in chunk_text.
CutWindow ==
    /\ step = "window"
    /\ AppendWindow
    /\ IF WindowEnd = Words
       THEN step' = "collect" /\ UNCHANGED start
       ELSE start' = WindowEnd - Overlap /\ UNCHANGED step
    /\ UNCHANGED <<kind, blocks, chunks, member>>

\* extend; rows are numbered on from the chunks there are of their file.
Collect ==
    /\ step = "collect"
    /\ chunks' = chunks \o
         [i \in DOMAIN windows |->
            IF kind = "pdf" THEN windows[i]
            ELSE [windows[i] EXCEPT !.index = @ + Len(chunks) - member]]
    /\ step' = "block"
    /\ UNCHANGED <<kind, blocks, start, windows, member>>

\* The next file of a zip begins its numbers anew.
NextMember ==
    /\ step = "block" /\ kind = "zip"
    /\ member # Len(chunks)
    /\ member' = Len(chunks)
    /\ UNCHANGED <<kind, blocks, step, start, windows, chunks>>

EndOfFile ==
    /\ step = "block"
    /\ step' = IF kind = "csv" THEN "done" ELSE "reindex"
    /\ UNCHANGED <<kind, blocks, start, windows, chunks, member>>

Reindex ==
    /\ step = "reindex"
    /\ chunks' = [i \in DOMAIN chunks |-> [chunks[i] EXCEPT !.index = i - 1]]
    /\ step' = "done"
    /\ UNCHANGED <<kind, blocks, start, windows, member>>

ChunkerNext ==
    ReadPage \/ ReadRows \/ CutWindow \/ Collect \/ NextMember \/ EndOfFile \/ Reindex

ChunkerSpec == ChunkerInit /\ [][ChunkerNext]_chunkerVars

\* The loader is one loop of one thread.
ChunkerFairSpec == ChunkerSpec /\ WF_chunkerVars(ChunkerNext)

-----------------------------------------------------------------------------
(* Properties *)

Covers(c, b, w) == c.block = b /\ c.first <= w /\ w < c.end

\* No word of a document is lost to retrieval.
EveryWordIsInAChunk ==
    \A b \in 1 .. Block : \A w \in 0 .. blocks[b] - 1 :
        \E i \in DOMAIN chunks : Covers(chunks[i], b, w)

\* Every chunk has something of its own: of two windows of a block the later one
\* goes on with the overlap where the earlier one ends.
WindowsOverlap ==
    \A i \in 1 .. Len(chunks) - 1 :
        chunks[i + 1].block = chunks[i].block =>
            /\ chunks[i + 1].first = chunks[i].end - Overlap
            /\ chunks[i + 1].end > chunks[i].end

\* chunk_index identifies a chunk of its document, whichever loader numbered the
\* chunks and however often: get_chunk_text expects at most one.
IndexesAreUnique ==
    \A i, j \in DOMAIN chunks : chunks[i].index = chunks[j].index => i = j

\* Every file has been read in the end, in chunks that are all this.
EveryFileIsChunked ==
    <>(step = "done" /\ EveryWordIsInAChunk /\ WindowsOverlap /\ IndexesAreUnique)
=============================================================================
