----------------------------- MODULE Text_proofs -----------------------------
(***************************************************************************)
(* Theorems about Chunker, for windows of any size with any smaller        *)
(* overlap and any number of blocks of any length: no word of a file that  *)
(* was read is lost, neighbours overlap and numbers are unique; and about  *)
(* AnswerChecks, for answers of any number of lines and clauses: the score *)
(* and the risk are what the docstrings say, but for one rule about colons.*)
(*                                                                         *)
(* The windows of the current block form a chain that begins at its first  *)
(* word; ChainInv says so of as many of its words as were cut, FileInv what*)
(* holds of the chunks collected from the blocks before.                   *)
(*                                                                         *)
(* The code cuts an answer into blocks in one pass and scores block after  *)
(* block; the docstring speaks of lines.  PartsFor says that the blocks are*)
(* the longest runs of lines of one kind.  From it alone follows that the  *)
(* docstring's block of a line is the one it was cut into (BlockIs), that  *)
(* the block next to it is the one before or after (NextAfter, NextBefore) *)
(* and that a claim is backed as the code decides it (SupportedIs).        *)
(* ConfidenceInv says what has been cut or counted so far.                 *)
(***************************************************************************)
EXTENDS Chunker, AnswerChecks, FiniteSetTheorems, SequenceTheorems, TLAPS

-----------------------------------------------------------------------------
(* Chunker *)

\* Every window of s covers something of block b and ends in it.
WindowsOf(s, b) ==
    \A i \in DOMAIN s : s[i].block = b /\ s[i].first < s[i].end /\ s[i].end <= blocks[b]

\* Neighbours in s overlap and the later one goes further.
Linked(s) ==
    \A i \in 1 .. Len(s) - 1 :
        s[i + 1].block = s[i].block =>
            s[i + 1].first = s[i].end - Overlap /\ s[i + 1].end > s[i].end

\* s is numbered through.
Numbered(s) == \A i \in DOMAIN s : s[i].index = i - 1

\* The first n words of block b are in s.
CoversFirst(s, b, n) == \A w \in 0 .. n - 1 : \E i \in DOMAIN s : Covers(s[i], b, w)

\* How much of the block has been cut.
CutSoFar == IF windows = <<>> THEN 0 ELSE windows[Len(windows)].end

\* The windows of the block the loader is at.
ChainInv ==
    step \in {"window", "collect"} =>
        /\ Block > 0
        /\ WindowsOf(windows, Block)
        /\ Linked(windows) /\ Numbered(windows)
        /\ CoversFirst(windows, Block, CutSoFar)
        /\ step = "window" =>
             /\ CutSoFar < Words
             /\ start = (IF windows = <<>> THEN 0 ELSE CutSoFar - Overlap)
        /\ step = "collect" => CutSoFar = Words

\* The blocks the loader has done with.
Collected == IF step \in {"window", "collect"} THEN Block - 1 ELSE Block

FileInv ==
    /\ \A i \in DOMAIN chunks : chunks[i].block \in 1 .. Collected
    /\ Linked(chunks)
    /\ kind \in {"csv", "phmsa"} \/ step = "done" => Numbered(chunks)
    /\ kind # "zip" => member = 0
    /\ \A b \in 1 .. Collected : CoversFirst(chunks, b, blocks[b])

ChunkerInv == ChunkerTypeOK /\ ChainInv /\ FileInv

-----------------------------------------------------------------------------
(* Types *)

\* A window lies within its block.
LEMMA WindowEndInBlock ==
  ASSUME ChunkerTypeOK, step = "window"
  PROVE  /\ Block \in 1 .. MaxBlocks /\ Words \in 0 .. MaxWords
         /\ WindowEnd \in 0 .. MaxWords
         /\ start < WindowEnd /\ WindowEnd <= Words
         /\ WindowEnd # Words => WindowEnd = start + Size /\ WindowEnd < Words
  <1>1. Block \in 1 .. MaxBlocks /\ Words \in 0 .. MaxWords /\ start < Words
    BY ChunkerAssumption DEF ChunkerTypeOK, Block, Words
  <1>2. Size \in Nat /\ Overlap \in Nat /\ Overlap < Size /\ MaxWords \in Nat /\ start \in Nat
    BY ChunkerAssumption DEF ChunkerTypeOK
  <1>3. QED
    BY <1>1, <1>2 DEF WindowEnd

\* A chunk with another number is the same piece of text.
LEMMA Renumbered ==
  ASSUME NEW c \in Chunk, NEW n \in Nat
  PROVE  LET d == [c EXCEPT !.index = n]
         IN  d \in Chunk /\ d.index = n /\ d.block = c.block /\ d.first = c.first /\ d.end = c.end
  BY DEF Chunk

\* The loop of chunk_text keeps the types: in particular the next window begins
\* in the block, at no negative word.
LEMMA TypeStep ==
  ASSUME ChunkerTypeOK, [ChunkerNext]_chunkerVars
  PROVE  ChunkerTypeOK'
  <1>0. /\ Size \in Nat /\ Overlap \in Nat /\ MaxWords \in Nat /\ MaxBlocks \in Nat
        /\ ScanLimit \in Nat /\ Overlap < Size
    BY ChunkerAssumption
  <1>1. CASE UNCHANGED chunkerVars
    BY <1>1 DEF chunkerVars, ChunkerTypeOK, Block, Words
  <1>2. ASSUME NEW words \in 0 .. MaxWords, step = "block", Cut(words) PROVE ChunkerTypeOK'
    <2>1. /\ blocks' \in Seq(0 .. MaxWords) /\ Len(blocks') = Len(blocks) + 1
          /\ blocks'[Len(blocks')] = words
      BY <1>2 DEF Cut, ChunkerTypeOK
    <2>2. QED
      BY <1>0, <1>2, <2>1 DEF Cut, ChunkerTypeOK, Block, Words
  <1>3. CASE ReadPage
    <2>1. PICK layer, ocr \in 0 .. MaxWords : Cut(PageText(layer, ocr))
      BY <1>3 DEF ReadPage
    <2>2. PageText(layer, ocr) \in 0 .. MaxWords
      BY DEF PageText
    <2>3. QED
      BY <1>2, <1>3, <2>1, <2>2 DEF ReadPage
  <1>4. CASE ReadRows
    BY <1>0, <1>2, <1>4 DEF ReadRows
  <1>5. CASE CutWindow
    <2>1. step = "window" /\ UNCHANGED <<kind, blocks, chunks, member>>
      BY <1>5 DEF CutWindow
    <2>2. [block |-> Block, first |-> start, end |-> WindowEnd, index |-> Len(windows)] \in Chunk
      BY <1>0, <2>1, WindowEndInBlock DEF ChunkerTypeOK, Chunk
    <2>3. windows' \in Seq(Chunk)
      BY <1>5, <2>2 DEF CutWindow, AppendWindow, ChunkerTypeOK
    <2>4. \/ step' = "collect" /\ start' = start
          \/ step' = "window" /\ start' \in 0 .. MaxWords /\ start' < Words
      BY <1>0, <1>5, <2>1, WindowEndInBlock DEF CutWindow, ChunkerTypeOK
    <2>5. QED
      BY <2>1, <2>3, <2>4, WindowEndInBlock DEF ChunkerTypeOK, Block, Words
  <1>6. CASE Collect
    <2> DEFINE added == [i \in DOMAIN windows |->
                           IF kind = "pdf" THEN windows[i]
                           ELSE [windows[i] EXCEPT !.index = @ + Len(chunks) - member]]
    <2>1. added \in Seq(Chunk)
      <3>1. ASSUME NEW i \in 1 .. Len(windows) PROVE added[i] \in Chunk
        <4>1. /\ windows[i] \in Chunk /\ Len(chunks) \in Nat /\ i \in DOMAIN windows
              /\ member \in 0 .. Len(chunks)
          BY DEF ChunkerTypeOK
        <4>2. windows[i].index + Len(chunks) - member \in Nat
          BY <4>1 DEF Chunk
        <4>3. QED
          BY <4>1, <4>2, Renumbered
      <3>2. DOMAIN added = 1 .. Len(windows) /\ Len(windows) \in Nat
        BY DEF ChunkerTypeOK
      <3>3. QED
        BY <3>1, <3>2
    <2>2. chunks' \in Seq(Chunk)
      <3>1. chunks' = chunks \o added
        BY <1>6 DEF Collect
      <3> HIDE DEF added
      <3>2. QED
        BY <2>1, <3>1 DEF ChunkerTypeOK
    <2>3. Len(chunks') >= Len(chunks) /\ Len(chunks') \in Nat /\ member' = member
      <3>1. chunks' = chunks \o added
        BY <1>6 DEF Collect
      <3> HIDE DEF added
      <3>2. Len(chunks') = Len(chunks) + Len(added) /\ Len(added) \in Nat /\ Len(chunks) \in Nat
        BY <2>1, <3>1 DEF ChunkerTypeOK
      <3>3. QED
        BY <1>6, <3>2 DEF Collect
    <2>4. member' \in 0 .. Len(chunks')
      <3>1. member \in 0 .. Len(chunks) /\ Len(chunks) \in Nat
        BY DEF ChunkerTypeOK
      <3>2. QED
        BY <2>3, <3>1
    <2>5. QED
      BY <1>6, <2>2, <2>4 DEF Collect, ChunkerTypeOK, Block, Words
  <1>a. CASE NextMember
    BY <1>a DEF NextMember, ChunkerTypeOK, Block, Words
  <1>7. CASE EndOfFile
    BY <1>7 DEF EndOfFile, ChunkerTypeOK, Block, Words
  <1>8. CASE Reindex
    <2>1. chunks' \in Seq(Chunk)
      <3>1. ASSUME NEW i \in 1 .. Len(chunks) PROVE chunks'[i] \in Chunk
        <4>1. chunks[i] \in Chunk /\ i - 1 \in Nat /\ i \in DOMAIN chunks
          BY DEF ChunkerTypeOK
        <4>2. chunks'[i] = [chunks[i] EXCEPT !.index = i - 1]
          BY <1>8, <4>1 DEF Reindex
        <4>3. QED
          BY <4>1, <4>2, Renumbered
      <3>2. /\ chunks' = [i \in 1 .. Len(chunks) |-> [chunks[i] EXCEPT !.index = i - 1]]
            /\ Len(chunks) \in Nat
        BY <1>8 DEF Reindex, ChunkerTypeOK
      <3>3. QED
        BY <3>1, <3>2
    <2>2. Len(chunks') = Len(chunks)
      BY <1>8 DEF Reindex, ChunkerTypeOK
    <2>3. QED
      BY <1>8, <2>1, <2>2 DEF Reindex, ChunkerTypeOK, Block, Words
  <1>9. QED
    BY <1>1, <1>3, <1>4, <1>5, <1>6, <1>a, <1>7, <1>8 DEF ChunkerNext

\* Whatever the loader reads, its state is well typed.
THEOREM ChunkerTypeCorrect == ChunkerSpec => []ChunkerTypeOK
  <1>1. ChunkerInit => ChunkerTypeOK
    BY ChunkerAssumption DEF ChunkerInit, ChunkerTypeOK, Block
  <1>2. QED
    BY <1>1, TypeStep, PTL DEF ChunkerSpec

-----------------------------------------------------------------------------
(* The windows of a block, the chunks of a file *)

\* The next window begins no later than the last one ended, and ends later.
LEMMA NextWindow ==
  ASSUME ChunkerTypeOK, ChainInv, step = "window"
  PROVE  /\ CutSoFar \in Nat /\ start <= CutSoFar /\ CutSoFar < WindowEnd
         /\ windows # <<>> => start = CutSoFar - Overlap
  <1>1. /\ Size \in Nat /\ Overlap \in Nat /\ Overlap < Size /\ start \in Nat
        /\ Words \in Nat /\ CutSoFar < Words
        /\ start = (IF windows = <<>> THEN 0 ELSE CutSoFar - Overlap)
    BY ChunkerAssumption, WindowEndInBlock DEF ChunkerTypeOK, ChainInv
  <1>2. CutSoFar \in Nat
    <2>1. ASSUME windows # <<>> PROVE windows[Len(windows)] \in Chunk
      BY <2>1 DEF ChunkerTypeOK
    <2>2. QED
      BY <2>1 DEF CutSoFar, Chunk
  <1>3. windows = <<>> => CutSoFar = 0
    BY DEF CutSoFar
  <1>4. QED
    BY <1>1, <1>2, <1>3 DEF WindowEnd

\* A turn of the loop prolongs the chain by one window.
LEMMA WindowStep ==
  ASSUME ChunkerTypeOK, ChunkerTypeOK', ChainInv, CutWindow
  PROVE  ChainInv'
  <1> DEFINE n == Len(windows)
             c == [block |-> Block, first |-> start, end |-> WindowEnd, index |-> n]
  <1>1. /\ step = "window" /\ UNCHANGED <<kind, blocks, chunks>> /\ windows' = Append(windows, c)
        /\ step' \in {"window", "collect"}
    BY DEF CutWindow, AppendWindow
  <1>2. Block' = Block /\ Words' = Words
    BY <1>1 DEF Block, Words
  <1>3. /\ n \in Nat /\ DOMAIN windows = 1 .. n /\ DOMAIN windows' = 1 .. n + 1
        /\ Len(windows') = n + 1 /\ windows'[n + 1] = c
        /\ \A i \in 1 .. n : windows'[i] = windows[i] /\ windows[i] \in Chunk
        /\ windows = <<>> <=> n = 0
    BY <1>1 DEF ChunkerTypeOK
  <1>4. /\ CutSoFar \in Nat /\ start <= CutSoFar /\ CutSoFar < WindowEnd
        /\ n > 0 => CutSoFar = windows[n].end /\ start = CutSoFar - Overlap
        /\ n \in Nat /\ start \in Nat /\ WindowEnd \in Nat /\ Words \in Nat /\ start < WindowEnd
        /\ WindowEnd <= Words /\ Block \in Nat /\ Block > 0
    <2>1. /\ start < WindowEnd /\ WindowEnd <= Words /\ Block > 0
          /\ Block \in Nat /\ Words \in Nat /\ WindowEnd \in Nat
      BY <1>1, WindowEndInBlock, ChunkerAssumption
    <2>2. QED
      BY <1>1, <1>3, <2>1, NextWindow, ChunkerAssumption DEF CutSoFar, ChunkerTypeOK
  <1>5. c.block = Block /\ c.first = start /\ c.end = WindowEnd /\ c.index = n
    OBVIOUS
  <1> HIDE DEF c
  <1>6. CutSoFar' = WindowEnd
    <2>1. windows' # <<>>
      BY <1>3
    <2>2. QED
      BY <1>3, <1>5, <2>1 DEF CutSoFar
  <1>7. /\ WindowsOf(windows, Block) /\ Linked(windows) /\ Numbered(windows)
        /\ CoversFirst(windows, Block, CutSoFar)
    BY <1>1 DEF ChainInv
  <1>8. WindowsOf(windows, Block)'
    BY <1>1, <1>2, <1>3, <1>4, <1>5, <1>7 DEF WindowsOf, Words
  <1>9. Linked(windows)'
    <2>1. ASSUME NEW i \in 1 .. n, windows'[i + 1].block = windows'[i].block
          PROVE  windows'[i + 1].first = windows'[i].end - Overlap
                 /\ windows'[i + 1].end > windows'[i].end
      <3>1. CASE i = n
        BY <1>3, <1>4, <1>5, <3>1
      <3>2. CASE i < n
        <4>1. i \in 1 .. n - 1 /\ i + 1 \in 1 .. n
          BY <1>3, <3>2
        <4>2. QED
          BY <1>3, <1>7, <2>1, <4>1 DEF Linked
      <3>3. i = n \/ i < n
        BY <1>4, <2>1
      <3>4. QED
        BY <3>1, <3>2, <3>3
    <2>2. QED
      BY <1>3, <2>1 DEF Linked
  <1>10. Numbered(windows)'
    BY <1>3, <1>5, <1>7 DEF Numbered
  <1>11. CoversFirst(windows, Block, CutSoFar)'
    <2>1. ASSUME NEW w \in 0 .. WindowEnd - 1
          PROVE  \E i \in DOMAIN windows' : Covers(windows'[i], Block, w)
      <3>1. CASE w < CutSoFar
        BY <1>3, <1>4, <1>7, <3>1 DEF CoversFirst, Covers
      <3>2. CASE w >= CutSoFar
        <4>1. Covers(windows'[n + 1], Block, w)
          BY <1>3, <1>4, <1>5, <3>2 DEF Covers
        <4>2. QED
          BY <1>3, <4>1
      <3>3. QED
        BY <1>4, <3>1, <3>2
    <2>2. QED
      BY <1>2, <1>6, <2>1 DEF CoversFirst, Covers
  <1>12. /\ step' = "collect" => WindowEnd = Words
         /\ step' = "window" => WindowEnd # Words /\ start' = WindowEnd - Overlap
    BY <1>1 DEF CutWindow
  <1>13. step' = "window" => CutSoFar' < Words' /\ start' = CutSoFar' - Overlap
    BY <1>2, <1>4, <1>6, <1>12
  <1>14. step' = "collect" => CutSoFar' = Words'
    BY <1>2, <1>6, <1>12
  <1>15. windows' # <<>> /\ Block' > 0
    BY <1>2, <1>3, <1>4
  <1>16. QED
    BY <1>8, <1>9, <1>10, <1>11, <1>13, <1>14, <1>15 DEF ChainInv

\* What becomes of the windows of a block when they are collected.
Added(i) == IF kind = "pdf" THEN windows[i] ELSE [windows[i] EXCEPT !.index = @ + Len(chunks) - member]

\* Collecting appends the chain to the chunks there are; the two are of
\* different blocks, and numbers go on where the loader wants them to.
LEMMA CollectStep ==
  ASSUME ChunkerTypeOK, ChunkerTypeOK', ChainInv, FileInv, Collect
  PROVE  FileInv'
  <1> DEFINE m == Len(chunks)
             n == Len(windows)
             added == [i \in DOMAIN windows |-> Added(i)]
  <1>1. step = "collect" /\ step' = "block" /\ UNCHANGED <<kind, blocks, start, windows>>
    BY DEF Collect
  <1>2. /\ m \in Nat /\ n \in Nat /\ DOMAIN windows = 1 .. n /\ DOMAIN chunks = 1 .. m
        /\ \A i \in 1 .. n : windows[i] \in Chunk
        /\ \A i \in 1 .. m : chunks[i] \in Chunk
        /\ Block \in Nat /\ Words \in Nat
    BY <1>1, ChunkerAssumption DEF ChunkerTypeOK, Block, Words, ChainInv
  <1>3. ASSUME NEW i \in 1 .. n
        PROVE  /\ Added(i) \in Chunk /\ Added(i).block = windows[i].block
               /\ Added(i).first = windows[i].first /\ Added(i).end = windows[i].end
               /\ kind # "pdf" => Added(i).index = windows[i].index + m - member
    <2>1. windows[i] \in Chunk /\ windows[i].index + m - member \in Nat
      <3>1. member \in 0 .. m /\ windows[i].index \in Nat
        BY <1>2 DEF Chunk, ChunkerTypeOK
      <3>2. QED
        BY <1>2, <3>1
    <2>2. QED
      BY <2>1, Renumbered DEF Added
  <1>4. added \in Seq(Chunk) /\ Len(added) = n
    BY <1>2, <1>3
  <1>5. chunks' = chunks \o added
    BY DEF Collect, Added
  <1>6. /\ DOMAIN chunks' = 1 .. m + n /\ Len(chunks') = m + n
        /\ \A i \in 1 .. m : chunks'[i] = chunks[i]
        /\ \A i \in 1 .. n : chunks'[m + i] = Added(i)
    <2> HIDE DEF added
    <2>1. chunks \in Seq(Chunk)
      BY DEF ChunkerTypeOK
    <2>2. /\ chunks' \in Seq(Chunk) /\ Len(chunks') = m + n
          /\ \A j \in 1 .. m + n : chunks'[j] = IF j <= m THEN chunks[j] ELSE added[j - m]
      <3> DEFINE both == chunks \o added
      <3>1. /\ both \in Seq(Chunk) /\ Len(both) = Len(chunks) + Len(added)
            /\ \A j \in 1 .. Len(chunks) + Len(added) :
                 both[j] = IF j <= Len(chunks) THEN chunks[j] ELSE added[j - Len(chunks)]
        BY <1>4, <2>1, ConcatProperties
      <3>2. chunks' = both
        BY <1>5
      <3> HIDE DEF both
      <3>3. QED
        BY <1>4, <3>1, <3>2
    <2>3. \A i \in 1 .. n : m + i \in 1 .. m + n /\ ~(m + i <= m) /\ m + i - m = i
      BY <1>2
    <2>4. \A i \in 1 .. n : chunks'[m + i] = added[i]
      BY <2>2, <2>3
    <2>5. \A i \in 1 .. m : i \in 1 .. m + n /\ i <= m
      BY <1>2
    <2>6. \A i \in 1 .. m : chunks'[i] = chunks[i]
      BY <2>2, <2>5
    <2>7. QED
      BY <1>2, <2>2, <2>4, <2>6 DEF added
  <1>7. /\ WindowsOf(windows, Block) /\ Linked(windows) /\ Numbered(windows)
        /\ CoversFirst(windows, Block, Words) /\ Block > 0
    BY <1>1 DEF ChainInv
  <1>8. Block' = Block /\ Collected = Block - 1 /\ Collected' = Block
    BY <1>1 DEF Collected, Block
  <1>9. ASSUME NEW j \in 1 .. m + n
        PROVE  j \in 1 .. m \/ \E i \in 1 .. n : j = m + i
    <2>1. j \in 1 .. m \/ (j - m \in 1 .. n /\ j = m + (j - m))
      BY <1>2
    <2>2. QED
      BY <2>1
  <1>10. \A j \in 1 .. m + n : chunks'[j].block \in 1 .. Block
    <2>1. ASSUME NEW j \in 1 .. m PROVE chunks'[j].block \in 1 .. Block
      BY <1>2, <1>6, <1>8, <2>1 DEF FileInv
    <2>2. ASSUME NEW i \in 1 .. n PROVE chunks'[m + i].block \in 1 .. Block
      BY <1>2, <1>3, <1>6, <1>7 DEF WindowsOf
    <2>3. QED
      BY <1>9, <2>1, <2>2
  <1>11. Linked(chunks)'
    <2>1. ASSUME NEW j \in 1 .. m + n - 1, chunks'[j + 1].block = chunks'[j].block
          PROVE  chunks'[j + 1].first = chunks'[j].end - Overlap
                 /\ chunks'[j + 1].end > chunks'[j].end
      <3>1. CASE j < m
        <4>1. j \in 1 .. m - 1 /\ j \in 1 .. m /\ j + 1 \in 1 .. m
          BY <1>2, <3>1
        <4>2. QED
          BY <1>6, <2>1, <4>1 DEF FileInv, Linked
      <3>2. CASE j = m
        <4>1. m \in 1 .. m /\ 1 \in 1 .. n
          BY <1>2, <3>2
        <4>2. chunks[m].block \in 1 .. Block - 1
          BY <1>2, <1>8, <4>1 DEF FileInv
        <4>3. chunks'[j] = chunks[m] /\ chunks'[j + 1].block = Block
          BY <1>2, <1>3, <1>6, <1>7, <3>2, <4>1 DEF WindowsOf
        <4>4. QED
          BY <1>2, <2>1, <4>2, <4>3
      <3>3. CASE j > m
        <4> DEFINE i == j - m
        <4>1. /\ i \in 1 .. n - 1 /\ i \in 1 .. n /\ i + 1 \in 1 .. n
              /\ m + i = j /\ m + (i + 1) = j + 1
          BY <1>2, <3>3
        <4> HIDE DEF i
        <4>2. chunks'[j] = Added(i) /\ chunks'[j + 1] = Added(i + 1)
          BY <1>6, <4>1
        <4>3. /\ Added(i).block = windows[i].block /\ Added(i).end = windows[i].end
              /\ Added(i + 1).block = windows[i + 1].block
              /\ Added(i + 1).first = windows[i + 1].first
              /\ Added(i + 1).end = windows[i + 1].end
          BY <1>3, <4>1
        <4>4. QED
          BY <1>7, <2>1, <4>1, <4>2, <4>3 DEF Linked
      <3>4. j < m \/ j = m \/ j > m
        <4>1. m \in Nat /\ n \in Nat
          BY <1>2
        <4>2. j \in Nat
          BY <4>1
        <4> HIDE DEF m
        <4>3. QED
          BY <4>1, <4>2
      <3>5. QED
        BY <3>1, <3>2, <3>3, <3>4
    <2>2. QED
      BY <1>6, <2>1 DEF Linked
  <1>12. kind \in {"csv", "phmsa"} => Numbered(chunks)'
    <2> SUFFICES ASSUME kind \in {"csv", "phmsa"} PROVE Numbered(chunks)'
      OBVIOUS
    <2>1. \A j \in 1 .. m : chunks'[j].index = j - 1
      BY <1>2, <1>6 DEF FileInv, Numbered
    <2>2. ASSUME NEW i \in 1 .. n PROVE chunks'[m + i].index = (m + i) - 1
      <3>1. chunks'[m + i] = Added(i) /\ Added(i).index = windows[i].index + m - member
        BY <1>3, <1>6
      <3>a. member = 0
        BY DEF FileInv
      <3>2. windows[i].index = i - 1
        BY <1>2, <1>7 DEF Numbered
      <3>3. QED
        BY <1>2, <3>1, <3>a, <3>2
    <2>3. \A j \in 1 .. m + n : chunks'[j].index = j - 1
      BY <1>9, <2>1, <2>2
    <2>4. QED
      BY <1>6, <2>3 DEF Numbered
  <1>13. ASSUME NEW b \in 1 .. Block, NEW w \in 0 .. blocks[b] - 1
         PROVE  \E j \in DOMAIN chunks' : Covers(chunks'[j], b, w)
    <2>1. CASE b < Block
      <3>1. PICK j \in 1 .. m : Covers(chunks[j], b, w)
        BY <1>2, <1>8, <2>1 DEF FileInv, CoversFirst
      <3>2. j \in 1 .. m + n
        BY <1>2
      <3>3. QED
        BY <1>6, <3>1, <3>2
    <2>2. CASE b = Block
      <3>1. PICK i \in 1 .. n : Covers(windows[i], Block, w)
        BY <1>2, <1>7, <2>2 DEF CoversFirst, Words
      <3>2. m + i \in 1 .. m + n
        BY <1>2
      <3>3. Covers(Added(i), b, w)
        BY <1>3, <2>2, <3>1 DEF Covers
      <3>4. QED
        BY <1>6, <3>2, <3>3
    <2>3. QED
      BY <1>2, <2>1, <2>2
  <1>14. \A b \in 1 .. Collected' : CoversFirst(chunks', b, blocks'[b])
    BY <1>1, <1>8, <1>13 DEF CoversFirst
  <1>15. \A i \in DOMAIN chunks' : chunks'[i].block \in 1 .. Collected'
    BY <1>6, <1>8, <1>10
  <1>16. member' = member /\ kind' = kind /\ (kind # "zip" => member = 0)
    BY <1>1 DEF FileInv, Collect
  <1>17. QED
    BY <1>1, <1>11, <1>12, <1>14, <1>15, <1>16 DEF FileInv, CoversFirst

\* One step of the loader.
LEMMA ChunkerInvStep ==
  ASSUME ChunkerInv, [ChunkerNext]_chunkerVars
  PROVE  ChunkerInv'
  <1>0. ChunkerTypeOK /\ ChainInv /\ FileInv /\ ChunkerTypeOK'
    BY TypeStep DEF ChunkerInv
  <1> SUFFICES ChainInv' /\ FileInv'
    BY <1>0 DEF ChunkerInv
  <1>1. CASE UNCHANGED chunkerVars
    BY <1>0, <1>1 DEF chunkerVars, ChainInv, FileInv, WindowsOf, Linked, Numbered, CoversFirst,
       Covers, CutSoFar, Collected, Block, Words
  <1>2. ASSUME NEW words \in 0 .. MaxWords, step = "block", Cut(words)
        PROVE  ChainInv' /\ FileInv'
    <2>1. /\ Len(blocks') = Block + 1 /\ Block \in Nat /\ blocks'[Block + 1] = words
          /\ \A b \in 1 .. Block : blocks'[b] = blocks[b]
          /\ UNCHANGED <<kind, chunks>> /\ windows' = <<>> /\ start' = 0
          /\ step' = IF words = 0 THEN "block" ELSE "window"
      BY <1>0, <1>2 DEF Cut, ChunkerTypeOK, Block
    <2>2. Words' = words /\ Block' = Block + 1 /\ CutSoFar' = 0
      BY <2>1 DEF Words, Block, CutSoFar
    <2>3. ChainInv'
      BY <2>1, <2>2 DEF ChainInv, WindowsOf, Linked, Numbered, CoversFirst
    <2>4. Collected = Block /\ Collected' = IF words = 0 THEN Block + 1 ELSE Block
      BY <1>2, <2>1, <2>2 DEF Collected
    <2>5. \A b \in 1 .. Block : CoversFirst(chunks, b, blocks[b])'
      BY <1>0, <2>1, <2>4 DEF FileInv, CoversFirst
    <2>6. \A b \in 1 .. Collected' : b \in 1 .. Block \/ blocks'[b] = 0
      BY <2>1, <2>4
    <2>7. ASSUME NEW b \in 1 .. Collected' PROVE CoversFirst(chunks', b, blocks'[b])
      BY <2>5, <2>6 DEF CoversFirst
    <2>8. /\ \A i \in DOMAIN chunks' : chunks'[i].block \in 1 .. Collected'
          /\ Linked(chunks')
          /\ kind' \in {"csv", "phmsa"} \/ step' = "done" => Numbered(chunks')
      BY <1>0, <2>1, <2>4 DEF FileInv, Linked, Numbered
    <2>9. kind' # "zip" => member' = 0
      BY <1>0, <1>2 DEF FileInv, Cut
    <2>10. QED
      BY <2>3, <2>7, <2>8, <2>9 DEF FileInv, CoversFirst, Linked, Numbered
  <1>3. CASE ReadPage
    <2>1. PICK layer, ocr \in 0 .. MaxWords : Cut(PageText(layer, ocr))
      BY <1>3 DEF ReadPage
    <2>2. PageText(layer, ocr) \in 0 .. MaxWords
      BY DEF PageText
    <2>3. QED
      BY <1>2, <1>3, <2>1, <2>2 DEF ReadPage
  <1>4. CASE ReadRows
    BY <1>2, <1>4, ChunkerAssumption DEF ReadRows
  <1>5. CASE CutWindow
    <2>1. ChainInv'
      BY <1>0, <1>5, WindowStep
    <2>2. /\ UNCHANGED <<kind, blocks, chunks, member>> /\ step = "window"
          /\ step' \in {"window", "collect"}
      BY <1>5 DEF CutWindow
    <2>3. FileInv'
      BY <1>0, <2>2 DEF FileInv, Collected, Block, Linked, Numbered, CoversFirst, Covers
    <2>4. QED
      BY <2>1, <2>3
  <1>6. CASE Collect
    BY <1>0, <1>6, CollectStep DEF Collect, ChainInv
  <1>a. CASE NextMember
    BY <1>0, <1>a DEF NextMember, ChainInv, FileInv, Collected, Block, Linked, Numbered,
       CoversFirst
  <1>7. CASE EndOfFile
    <2>1. /\ step = "block" /\ step' \in {"done", "reindex"}
          /\ step' = "done" => kind = "csv"
          /\ UNCHANGED <<kind, blocks, chunks, member>>
      BY <1>7 DEF EndOfFile
    <2>2. ChainInv'
      BY <2>1 DEF ChainInv
    <2>3. Collected' = Collected
      BY <2>1 DEF Collected, Block
    <2>4. /\ Linked(chunks) => Linked(chunks)'
          /\ Numbered(chunks) => Numbered(chunks)'
          /\ \A b \in 1 .. Collected :
               CoversFirst(chunks, b, blocks[b]) => CoversFirst(chunks, b, blocks[b])'
      BY <2>1 DEF Linked, Numbered, CoversFirst, Covers
    <2>5. kind = "csv" => Numbered(chunks)
      BY <1>0 DEF FileInv
    <2>6. step' = "done" \/ kind' \in {"csv", "phmsa"} => Numbered(chunks)'
      BY <1>0, <2>1, <2>4, <2>5 DEF FileInv
    <2>7. FileInv'
      BY <1>0, <2>1, <2>3, <2>4, <2>6 DEF FileInv
    <2>8. QED
      BY <2>2, <2>7
  <1>8. CASE Reindex
    <2>1. step = "reindex" /\ step' = "done" /\ UNCHANGED <<kind, blocks, member>>
      BY <1>8 DEF Reindex
    <2>2. /\ DOMAIN chunks' = DOMAIN chunks /\ Len(chunks') = Len(chunks)
          /\ DOMAIN chunks = 1 .. Len(chunks) /\ Len(chunks) \in Nat
      BY <1>0, <1>8 DEF Reindex, ChunkerTypeOK
    <2>3. ASSUME NEW i \in DOMAIN chunks
          PROVE  /\ chunks'[i].block = chunks[i].block /\ chunks'[i].first = chunks[i].first
                 /\ chunks'[i].end = chunks[i].end /\ chunks'[i].index = i - 1
      <3>1. chunks[i] \in Chunk /\ i - 1 \in Nat
        BY <1>0, <2>2 DEF ChunkerTypeOK
      <3>2. chunks'[i] = [chunks[i] EXCEPT !.index = i - 1]
        BY <1>8 DEF Reindex
      <3>3. QED
        BY <3>1, <3>2, Renumbered
    <2>4. ChainInv'
      BY <2>1 DEF ChainInv
    <2>5. Collected' = Collected
      BY <2>1 DEF Collected, Block
    <2>6. Linked(chunks)' /\ Numbered(chunks)'
      BY <1>0, <2>2, <2>3 DEF FileInv, Linked, Numbered
    <2>7. \A b \in 1 .. Collected : CoversFirst(chunks', b, blocks[b])
      BY <1>0, <2>2, <2>3 DEF FileInv, CoversFirst, Covers
    <2>8. QED
      BY <1>0, <2>1, <2>2, <2>3, <2>4, <2>5, <2>6, <2>7 DEF FileInv, CoversFirst
  <1>9. QED
    BY <1>1, <1>3, <1>4, <1>5, <1>6, <1>a, <1>7, <1>8 DEF ChunkerNext

\* A file that has been read has been read well: no word of it is lost, windows
\* of a block overlap, each with something of its own, and chunk_index is unique.
THEOREM FilesAreChunkedWell ==
  ChunkerSpec =>
    [](step = "done" => EveryWordIsInAChunk /\ WindowsOverlap /\ IndexesAreUnique)
  <1>1. ChunkerInit => ChunkerInv
    BY ChunkerAssumption DEF ChunkerInit, ChunkerInv, ChunkerTypeOK, ChainInv, FileInv, Block,
       Collected, Linked, Numbered
  <1>2. ChunkerInv => (step = "done" => EveryWordIsInAChunk /\ WindowsOverlap /\ IndexesAreUnique)
    <2> SUFFICES ASSUME ChunkerInv, step = "done"
        PROVE  EveryWordIsInAChunk /\ WindowsOverlap /\ IndexesAreUnique
      OBVIOUS
    <2>1. FileInv /\ chunks \in Seq(Chunk) /\ Collected = Block
      BY DEF ChunkerInv, ChunkerTypeOK, Collected
    <2>2. EveryWordIsInAChunk
      BY <2>1 DEF FileInv, EveryWordIsInAChunk, CoversFirst
    <2>3. WindowsOverlap
      BY <2>1 DEF FileInv, WindowsOverlap, Linked
    <2>4. IndexesAreUnique
      <3>1. \A i \in DOMAIN chunks : i \in Nat /\ chunks[i].index = i - 1
        BY <2>1 DEF FileInv, Numbered
      <3>2. QED
        BY <3>1 DEF IndexesAreUnique
    <2>5. QED
      BY <2>2, <2>3, <2>4
  <1>3. QED
    BY <1>1, <1>2, ChunkerInvStep, PTL DEF ChunkerSpec

-----------------------------------------------------------------------------
(* AnswerChecks *)

Part == [kind : {"heading", "table", "list", "cite", "prose"}, first : Nat, last : Nat]

\* Line goes on with a list or a table.
Joins(k, line) ==
    \/ /\ k = "list"
       /\ \/ line.form = "item"
          \/ line.form \in {"tags", "text"} /\ line.indented
    \/ k = "table" /\ line.form = "row"

In(k, p) == p.first <= k /\ k <= p.last

\* The lines of block p are among the first n, of its kind and as many as can be.
Fits(answer, p, n) ==
    /\ 1 <= p.first /\ p.first <= p.last /\ p.last <= n
    /\ p.kind = KindOf[answer[p.first].form]
    /\ \A k \in p.first + 1 .. p.last : Joins(p.kind, answer[k])
    /\ p.last < n => ~Joins(p.kind, answer[p.last + 1])

\* The blocks ps are those of the first n lines, in order, with nothing but blank
\* lines left out.
PartsFor(answer, ps, n) ==
    /\ ps \in Seq(Part)
    /\ \A i \in 1 .. Len(ps) : Fits(answer, ps[i], n)
    /\ \A i, j \in 1 .. Len(ps) : i < j => ps[i].last < ps[j].first
    /\ \A k \in 1 .. n : answer[k].form # "blank" => \E i \in 1 .. Len(ps) : In(k, ps[i])

\* The last line of the first m blocks.
EndOf(ps, m) == IF m = 0 THEN 0 ELSE ps[m].last

\* The nearest heading among the first n lines is cited.
CitedAbove(answer, n) ==
    \E h \in 1 .. n :
        /\ answer[h].form = "heading" /\ answer[h].cites = "valid"
        /\ \A k \in h + 1 .. n : answer[k].form # "heading"

ClaimsUpTo(answer, n) == {k \in Claims(answer) : k <= n}

\* The code counts it as backed.
IsCounted(answer, i) == IsBacked(answer, i) /\ ~IsOverlooked(answer, i)

BackedUpTo(answer, n) == {k \in Claims(answer) : k <= n /\ IsCounted(answer, k)}

\* The tally is that of the first n lines.
TallyOf(answer, n) ==
    /\ tally.sectionCited <=> CitedAbove(answer, n)
    /\ tally.claims = Cardinality(ClaimsUpTo(answer, n))
    /\ tally.backed = Cardinality(BackedUpTo(answer, n))

ConfidenceInv ==
    problem.about = "confidence" =>
        /\ loop # "pick"
        /\ ~problem.retrieved \/ Cited(problem.answer) = {} => loop = "done"
        /\ problem.retrieved /\ Cited(problem.answer) # {} =>
             /\ loop = "cut" =>
                  /\ turn <= Len(problem.answer)
                  /\ PartsFor(problem.answer, parts, turn) /\ TallyOf(problem.answer, 0)
             /\ loop = "weigh" =>
                  /\ turn <= Len(parts)
                  /\ PartsFor(problem.answer, parts, Len(problem.answer))
                  /\ TallyOf(problem.answer, EndOf(parts, turn))
             /\ loop = "done" => TallyOf(problem.answer, Len(problem.answer))

\* The nearest heading among the first n clauses announces recommendations.
AdvisedAbove(clauses, n) ==
    \E h \in 1 .. n :
        /\ clauses[h].heading /\ clauses[h].advice = "cue"
        /\ \A k \in h + 1 .. n : ~clauses[k].heading

NamedBy(clauses, n) == {clauses[i].names : i \in {j \in 1 .. n : Recommends(clauses, j)}}

RiskInv ==
    problem.about = "risk" =>
        /\ loop \in {"pick", "done"}
        /\ loop = "pick" =>
             /\ turn <= Len(problem.clauses)
             /\ picked.inSection <=> AdvisedAbove(problem.clauses, turn)
             /\ picked.named = NamedBy(problem.clauses, turn)
        /\ loop = "done" => picked.named = NamedBy(problem.clauses, Len(problem.clauses))

ChecksTypeOK ==
    /\ problem \in ConfidenceProblem \cup RiskProblem
    /\ loop \in {"cut", "weigh", "pick", "done"} /\ turn \in Nat
    /\ parts \in Seq(Part)
    /\ tally \in [claims : Nat, backed : Nat, sectionCited : BOOLEAN]
    /\ picked \in [inSection : BOOLEAN, named : SUBSET {"nothing", "medium", "high"}]

ChecksInv == ChecksTypeOK /\ ConfidenceInv /\ RiskInv

-----------------------------------------------------------------------------
(* Risk *)

\* No problem is of both kinds.
LEMMA ProblemFields ==
  ASSUME problem \in ConfidenceProblem \cup RiskProblem
  PROVE  /\ problem.about = "confidence" =>
              problem.answer \in Seq(Line) /\ problem.retrieved \in BOOLEAN
         /\ problem.about = "risk" =>
              /\ problem.clauses \in Seq(Clause) /\ problem.reply \in {"NONE", "ACTION", "error"}
              /\ problem.adviceAsked \in BOOLEAN /\ problem.confident \in BOOLEAN
         /\ problem.about \in {"confidence", "risk"}
  BY DEF ConfidenceProblem, RiskProblem

\* A clause recommends by what the heading above says and by itself.
LEMMA PickedIsRecommended ==
  ASSUME NEW clauses \in Seq(Clause), NEW n \in Nat, n < Len(clauses),
         NEW s \in BOOLEAN, s <=> AdvisedAbove(clauses, n)
  PROVE  Recommended(clauses[n + 1], s) <=> Recommends(clauses, n + 1)
  <1>1. clauses[n + 1] \in Clause /\ (n + 1) - 1 = n
    <2>1. n + 1 \in 1 .. Len(clauses)
      OBVIOUS
    <2>2. QED
      BY <2>1
  <1>2. Recommends(clauses, n + 1) <=>
          \/ clauses[n + 1].advice = "cue"
          \/ clauses[n + 1].advice = "imperative" /\ ~clauses[n + 1].heading
          \/ /\ clauses[n + 1].advice = "none" /\ ~clauses[n + 1].heading
             /\ AdvisedAbove(clauses, n)
    BY <1>1 DEF Recommends, AdvisedAbove
  <1>3. QED
    BY <1>1, <1>2 DEF Recommended, Clause

\* A clause more.
LEMMA NamedByMore ==
  ASSUME NEW clauses \in Seq(Clause), NEW n \in Nat, n < Len(clauses)
  PROVE  NamedBy(clauses, n + 1) =
           NamedBy(clauses, n) \cup (IF Recommends(clauses, n + 1)
                                     THEN {clauses[n + 1].names} ELSE {})
  <1>1. 1 .. n + 1 = (1 .. n) \cup {n + 1}
    OBVIOUS
  <1>2. QED
    BY <1>1 DEF NamedBy

\* The nearest heading changes only at a heading.
LEMMA AdvisedByMore ==
  ASSUME NEW clauses \in Seq(Clause), NEW n \in Nat, n < Len(clauses)
  PROVE  AdvisedAbove(clauses, n + 1) <=>
           IF clauses[n + 1].heading THEN clauses[n + 1].advice = "cue"
           ELSE AdvisedAbove(clauses, n)
  <1>1. 1 .. n + 1 = (1 .. n) \cup {n + 1} /\ (n + 1) + 1 .. n + 1 = {}
    OBVIOUS
  <1>2. \A h \in 1 .. n : h + 1 .. n + 1 = (h + 1 .. n) \cup {n + 1}
    OBVIOUS
  <1>3. QED
    BY <1>1, <1>2 DEF AdvisedAbove

\* The clauses name what is to be named.
LEMMA NamedType ==
  ASSUME NEW clauses \in Seq(Clause), NEW n \in Nat, n <= Len(clauses)
  PROVE  NamedBy(clauses, n) \subseteq {"nothing", "medium", "high"}
  <1>1. \A j \in 1 .. n : clauses[j] \in Clause
    OBVIOUS
  <1>2. QED
    BY <1>1 DEF NamedBy, Clause

\* A turn of the loop of classify_risk.
LEMMA PickStep ==
  ASSUME ChecksInv, PickClause
  PROVE  ChecksInv'
  <1> DEFINE c == problem.clauses[turn + 1]
  <1>1. /\ loop = "pick" /\ turn \in Nat /\ turn < Len(problem.clauses)
        /\ problem.about = "risk" /\ problem.clauses \in Seq(Clause)
    BY ProblemFields DEF ChecksInv, ChecksTypeOK, ConfidenceInv, PickClause
  <1>2. /\ turn' = turn + 1 /\ UNCHANGED <<problem, loop, parts, tally>>
        /\ picked' = [inSection |-> InSectionAfter(c),
                      named |-> picked.named
                                  \cup IF Recommended(c, picked.inSection) THEN {c.names} ELSE {}]
    BY DEF PickClause
  <1>3. /\ picked.inSection \in BOOLEAN /\ (picked.inSection <=> AdvisedAbove(problem.clauses, turn))
        /\ picked.named = NamedBy(problem.clauses, turn)
    BY <1>1 DEF ChecksInv, ChecksTypeOK, RiskInv
  <1>4. c \in Clause
    BY <1>1
  <1>5. picked'.inSection \in BOOLEAN /\ (picked'.inSection <=> AdvisedAbove(problem.clauses, turn + 1))
    <2>1. picked'.inSection = InSectionAfter(c)
      BY <1>2
    <2>2. InSectionAfter(c) \in BOOLEAN
      BY <1>3, <1>4 DEF InSectionAfter, Clause
    <2>3. InSectionAfter(c) <=> AdvisedAbove(problem.clauses, turn + 1)
      BY <1>1, <1>3, AdvisedByMore DEF InSectionAfter
    <2>4. QED
      BY <2>1, <2>2, <2>3
  <1>6. picked'.named = NamedBy(problem.clauses, turn + 1)
    <2>1. Recommended(c, picked.inSection) <=> Recommends(problem.clauses, turn + 1)
      BY <1>1, <1>3, PickedIsRecommended
    <2>2. QED
      BY <1>1, <1>2, <1>3, <2>1, NamedByMore
  <1>7. RiskInv'
    BY <1>1, <1>2, <1>5, <1>6 DEF RiskInv
  <1>8. ChecksTypeOK'
    <2>1. turn + 1 <= Len(problem.clauses) /\ turn + 1 \in Nat
      BY <1>1
    <2>2. picked'.named \in SUBSET {"nothing", "medium", "high"}
      BY <1>1, <1>6, <2>1, NamedType
    <2>3. picked' \in [inSection : BOOLEAN, named : SUBSET {"nothing", "medium", "high"}]
      BY <1>2, <1>5, <2>2
    <2>4. QED
      BY <1>2, <2>1, <2>3 DEF ChecksInv, ChecksTypeOK
  <1>9. QED
    BY <1>1, <1>2, <1>7, <1>8 DEF ChecksInv, ConfidenceInv

-----------------------------------------------------------------------------
(* Lines and blocks *)

\* What a line can be.
LEMMA LineFields ==
  ASSUME NEW a \in Seq(Line), NEW k \in 1 .. Len(a)
  PROVE  /\ a[k].form \in {"blank", "heading", "row", "item", "tags", "text"}
         /\ a[k].indented \in BOOLEAN /\ a[k].colon \in BOOLEAN
         /\ a[k].cites \in {"none", "valid", "invalid"}
         /\ a[k].figure \in {"none", "known", "unknown"}
         /\ a[k].form \in {"blank", "tags"} => a[k].figure = "none"
  <1>1. a[k] \in Line
    OBVIOUS
  <1>2. QED
    BY <1>1 DEF Line, Forms

\* The first line makes the kind.
LEMMA KindOfForm ==
  /\ KindOf["blank"] = "blank" /\ KindOf["heading"] = "heading" /\ KindOf["row"] = "table"
  /\ KindOf["item"] = "list" /\ KindOf["tags"] = "cite" /\ KindOf["text"] = "prose"
  BY DEF KindOf

\* The lines of a block.
LEMMA LinesOfPart ==
  ASSUME NEW a \in Seq(Line), NEW n \in Nat, n <= Len(a),
         NEW p \in Part, Fits(a, p, n), NEW k \in Nat, In(k, p)
  PROVE  /\ k \in 1 .. n /\ a[k].form # "blank"
         /\ p.kind = "list" => a[k].form \in {"item", "tags", "text"}
         /\ p.kind = "table" => a[k].form = "row"
         /\ ~Composite(p) => k = p.first /\ k = p.last /\ p.kind = KindOf[a[k].form]
         /\ a[k].form = "item" => p.kind = "list"
         /\ a[k].form = "row" => p.kind = "table"
         /\ a[k].form = "heading" <=> p.kind = "heading"
  <1>1. p.first \in Nat /\ p.last \in Nat
        /\ p.kind \in {"heading", "table", "list", "cite", "prose"}
    BY DEF Part
  <1>2. 1 <= p.first /\ p.first <= k /\ k <= p.last /\ p.last <= n
    BY DEF Fits, In
  <1>3. a[p.first].form \in {"blank", "heading", "row", "item", "tags", "text"}
        /\ p.kind = KindOf[a[p.first].form]
    BY <1>1, <1>2, LineFields DEF Fits
  <1>4. k = p.first \/ Joins(p.kind, a[k])
    BY <1>1, <1>2 DEF Fits
  <1>5. ~Composite(p) => p.first = p.last
    <2>1. p.first < p.last => Joins(p.kind, a[p.last])
      BY <1>1, <1>2 DEF Fits
    <2>2. QED
      BY <1>1, <1>2, <2>1 DEF Joins, Composite
  <1>6. QED
    BY <1>1, <1>2, <1>3, <1>4, <1>5, KindOfForm DEF Joins, Composite

\* No line is in two blocks, and a later block has later lines.
LEMMA PartIsUnique ==
  ASSUME NEW a \in Seq(Line), NEW n \in Nat, NEW ps, PartsFor(a, ps, n),
         NEW i \in 1 .. Len(ps), NEW j \in 1 .. Len(ps),
         NEW k \in Nat, NEW m \in Nat, In(k, ps[i]), In(m, ps[j])
  PROVE  /\ k = m => i = j
         /\ i < j => k < m
  <1>1. /\ ps[i] \in Part /\ ps[j] \in Part
        /\ i < j => ps[i].last < ps[j].first
        /\ j < i => ps[j].last < ps[i].first
    BY DEF PartsFor
  <1>2. QED
    BY <1>1 DEF In, Part

\* A list ends where it cannot go on.
LEMMA OneListIs ==
  ASSUME NEW a \in Seq(Line), NEW ps, PartsFor(a, ps, Len(a)),
         NEW lo \in 1 .. Len(a), NEW hi \in lo .. Len(a)
  PROVE  OneList(a, lo, hi) <=>
           \E i \in 1 .. Len(ps) : ps[i].kind = "list" /\ In(lo, ps[i]) /\ In(hi, ps[i])
  <1>1. ASSUME OneList(a, lo, hi)
        PROVE  \E i \in 1 .. Len(ps) : ps[i].kind = "list" /\ In(lo, ps[i]) /\ In(hi, ps[i])
    <2>1. PICK f \in 1 .. lo :
            /\ a[f].form = "item"
            /\ \A k \in f .. hi : a[k].form = "item" \/ (a[k].form \in {"tags", "text"} /\ a[k].indented)
      BY <1>1 DEF OneList
    <2>2. PICK i \in 1 .. Len(ps) : In(f, ps[i])
      <3>1. f \in 1 .. Len(a) /\ a[f].form # "blank"
        BY <2>1
      <3>2. QED
        BY <3>1 DEF PartsFor
    <2>3. ps[i] \in Part /\ Fits(a, ps[i], Len(a)) /\ Len(a) \in Nat /\ f \in Nat
      BY DEF PartsFor
    <2>4. ps[i].kind = "list"
      BY <2>1, <2>2, <2>3, LinesOfPart
    <2>5. hi <= ps[i].last
      <3>1. SUFFICES ASSUME ps[i].last < hi PROVE FALSE
        BY <2>3 DEF Part
      <3>2. ps[i].last + 1 \in f .. hi /\ ps[i].last < Len(a)
        BY <2>2, <2>3, <3>1 DEF In, Part
      <3>3. Joins("list", a[ps[i].last + 1])
        BY <2>1, <3>2 DEF Joins
      <3>4. QED
        BY <2>3, <2>4, <3>2, <3>3 DEF Fits
    <2>6. QED
      BY <2>2, <2>3, <2>4, <2>5 DEF In, Part
  <1>2. ASSUME NEW i \in 1 .. Len(ps), ps[i].kind = "list", In(lo, ps[i]), In(hi, ps[i])
        PROVE  OneList(a, lo, hi)
    <2>1. ps[i] \in Part /\ Fits(a, ps[i], Len(a)) /\ Len(a) \in Nat
      BY DEF PartsFor
    <2>2. ps[i].first \in 1 .. lo /\ In(ps[i].first, ps[i]) /\ ps[i].first \in Nat
      BY <1>2, <2>1 DEF In, Part, Fits
    <2>3. a[ps[i].first].form = "item"
      <3>1. KindOf[a[ps[i].first].form] = "list"
        BY <1>2, <2>1 DEF Fits
      <3>2. a[ps[i].first].form \in {"blank", "heading", "row", "item", "tags", "text"}
        BY <2>1, <2>2, LineFields
      <3>3. QED
        BY <3>1, <3>2, KindOfForm
    <2>4. \A k \in ps[i].first .. hi :
             a[k].form = "item" \/ (a[k].form \in {"tags", "text"} /\ a[k].indented)
      <3>1. \A k \in ps[i].first .. hi : k = ps[i].first \/ k \in ps[i].first + 1 .. ps[i].last
        BY <1>2, <2>1 DEF In, Part
      <3>2. QED
        BY <1>2, <2>1, <2>3, <3>1 DEF Fits, Joins
    <2>5. QED
      BY <2>2, <2>3, <2>4 DEF OneList
  <1>3. QED
    BY <1>1, <1>2

\* So does a table.
LEMMA OneTableIs ==
  ASSUME NEW a \in Seq(Line), NEW ps, PartsFor(a, ps, Len(a)),
         NEW lo \in 1 .. Len(a), NEW hi \in lo .. Len(a)
  PROVE  OneTable(a, lo, hi) <=>
           \E i \in 1 .. Len(ps) : ps[i].kind = "table" /\ In(lo, ps[i]) /\ In(hi, ps[i])
  <1>1. ASSUME OneTable(a, lo, hi)
        PROVE  \E i \in 1 .. Len(ps) : ps[i].kind = "table" /\ In(lo, ps[i]) /\ In(hi, ps[i])
    <2>1. \A k \in lo .. hi : a[k].form = "row"
      BY <1>1 DEF OneTable
    <2>2. PICK i \in 1 .. Len(ps) : In(lo, ps[i])
      <3>1. a[lo].form # "blank"
        BY <2>1
      <3>2. QED
        BY <3>1 DEF PartsFor
    <2>3. ps[i] \in Part /\ Fits(a, ps[i], Len(a)) /\ Len(a) \in Nat /\ lo \in Nat
      BY DEF PartsFor
    <2>4. ps[i].kind = "table"
      BY <2>1, <2>2, <2>3, LinesOfPart
    <2>5. hi <= ps[i].last
      <3>1. SUFFICES ASSUME ps[i].last < hi PROVE FALSE
        BY <2>3 DEF Part
      <3>2. ps[i].last + 1 \in lo .. hi /\ ps[i].last < Len(a)
        BY <2>2, <2>3, <3>1 DEF In, Part
      <3>3. Joins("table", a[ps[i].last + 1])
        BY <2>1, <3>2 DEF Joins
      <3>4. QED
        BY <2>3, <2>4, <3>2, <3>3 DEF Fits
    <2>6. QED
      BY <2>2, <2>3, <2>4, <2>5 DEF In, Part
  <1>2. ASSUME NEW i \in 1 .. Len(ps), ps[i].kind = "table", In(lo, ps[i]), In(hi, ps[i])
        PROVE  OneTable(a, lo, hi)
    <2>1. ps[i] \in Part /\ Fits(a, ps[i], Len(a)) /\ Len(a) \in Nat
      BY DEF PartsFor
    <2>2. \A k \in lo .. hi : k \in Nat /\ In(k, ps[i])
      BY <1>2, <2>1 DEF In, Part
    <2>3. QED
      BY <1>2, <2>1, <2>2, LinesOfPart DEF OneTable
  <1>3. QED
    BY <1>1, <1>2

\* The block of a line, as the docstring has it, is the one it was cut into.
LEMMA BlockIs ==
  ASSUME NEW a \in Seq(Line), NEW ps, PartsFor(a, ps, Len(a)),
         NEW i \in 1 .. Len(ps), NEW k \in Nat, In(k, ps[i])
  PROVE  /\ k \in 1 .. Len(a)
         /\ InComposite(a, k) <=> Composite(ps[i])
         /\ BlockOf(a, k) = ps[i].first .. ps[i].last
  <1>1. ps[i] \in Part /\ Fits(a, ps[i], Len(a)) /\ Len(a) \in Nat /\ DOMAIN a = 1 .. Len(a)
    BY DEF PartsFor
  <1>2. /\ k \in 1 .. Len(a) /\ (~Composite(ps[i]) => k = ps[i].first /\ k = ps[i].last)
    BY <1>1, LinesOfPart
  <1>3. InComposite(a, k) <=> Composite(ps[i])
    <2>1. k \in k .. Len(a)
      BY <1>2
    <2>2. \A j \in 1 .. Len(ps) : In(k, ps[j]) => j = i
      BY <1>1, PartIsUnique
    <2>3. QED
      BY <1>2, <2>1, <2>2, OneListIs, OneTableIs DEF InComposite, Composite
  <1>4. ASSUME NEW j \in 1 .. Len(a)
        PROVE  Together(a, k, j) <=> In(j, ps[i])
    <2>1. \A h \in 1 .. Len(ps) : In(k, ps[h]) => h = i
      BY <1>1, PartIsUnique
    <2>2. CASE k <= j
      <3>1. j \in k .. Len(a)
        BY <1>2, <2>2
      <3>2. OneList(a, k, j) \/ OneTable(a, k, j) <=> Composite(ps[i]) /\ In(j, ps[i])
        BY <1>2, <2>1, <3>1, OneListIs, OneTableIs DEF Composite
      <3>3. QED
        BY <1>1, <1>2, <2>2, <3>2 DEF Together, In, Part
    <2>3. CASE j < k
      <3>1. k \in j .. Len(a)
        BY <1>2, <2>3
      <3>2. OneList(a, j, k) \/ OneTable(a, j, k) <=> Composite(ps[i]) /\ In(j, ps[i])
        BY <1>2, <2>1, <3>1, OneListIs, OneTableIs DEF Composite
      <3>3. QED
        BY <1>1, <1>2, <2>3, <3>2 DEF Together, In, Part
    <2>4. QED
      BY <1>2, <2>2, <2>3
  <1>5. \A j \in ps[i].first .. ps[i].last : j \in 1 .. Len(a)
    BY <1>1 DEF Fits, Part
  <1>6. BlockOf(a, k) = ps[i].first .. ps[i].last
    BY <1>1, <1>4, <1>5 DEF BlockOf, In, Part
  <1>7. QED
    BY <1>2, <1>3, <1>6

\* Below a block comes the next one.
LEMMA NextAfter ==
  ASSUME NEW a \in Seq(Line), NEW ps, PartsFor(a, ps, Len(a)),
         NEW i \in 1 .. Len(ps), NEW k \in Nat, In(k, ps[i]), NEW j \in k + 1 .. Len(a)
  PROVE  NextTo(a, k, j) <=> i < Len(ps) /\ j = ps[i + 1].first
  <1>1. /\ \A h \in 1 .. Len(ps) : ps[h] \in Part /\ Fits(a, ps[h], Len(a))
        /\ Len(a) \in Nat /\ DOMAIN a = 1 .. Len(a) /\ Len(ps) \in Nat
    BY DEF PartsFor
  <1>2. k \in 1 .. Len(a) /\ BlockOf(a, k) = ps[i].first .. ps[i].last
    BY BlockIs
  <1>3. ASSUME NextTo(a, k, j)
        PROVE  i < Len(ps) /\ j = ps[i + 1].first
    <2>1. PICK q \in 1 .. Len(ps) : In(j, ps[q])
      <3>1. a[j].form # "blank" /\ j \in 1 .. Len(a)
        BY <1>2, <1>3 DEF NextTo
      <3>2. QED
        BY <3>1 DEF PartsFor
    <2>2. i < q
      <3>1. q # i
        BY <1>1, <1>2, <1>3, <2>1 DEF NextTo, In, Part
      <3>2. ~(q < i)
        <4>1. j \in Nat /\ k < j
          OBVIOUS
        <4>2. q < i => j < k
          BY <1>1, <2>1, <4>1, PartIsUnique
        <4>3. QED
          BY <4>1, <4>2
      <3>3. QED
        BY <3>1, <3>2
    <2>3. i + 1 \in 1 .. Len(ps) /\ i < i + 1
      BY <2>2
    <2>4. /\ ps[i + 1].first \in Nat /\ In(ps[i + 1].first, ps[i + 1])
          /\ k < ps[i + 1].first /\ ps[i + 1].first \in 1 .. Len(a)
          /\ a[ps[i + 1].first].form # "blank"
      <3>1. ps[i + 1] \in Part /\ Fits(a, ps[i + 1], Len(a))
        BY <1>1, <2>3
      <3>2. ps[i + 1].first \in Nat /\ In(ps[i + 1].first, ps[i + 1])
        BY <3>1 DEF Fits, In, Part
      <3>3. QED
        <4>1. k < ps[i + 1].first
          BY <1>1, <2>3, <3>2, PartIsUnique
        <4>2. ps[i + 1].first \in 1 .. Len(a) /\ a[ps[i + 1].first].form # "blank"
          BY <1>1, <3>1, <3>2, LinesOfPart
        <4>3. QED
          BY <3>2, <4>1, <4>2
    <2>5. ps[i + 1].first \notin ps[i].first .. ps[i].last
      <3>1. ps[i].last < ps[i + 1].first
        BY <2>3 DEF PartsFor
      <3>2. QED
        BY <1>1, <2>4, <3>1 DEF Part
    <2>6. ~(ps[i + 1].first < j)
      BY <1>1, <1>2, <1>3, <2>4, <2>5 DEF NextTo
    <2>7. q = i + 1 \/ i + 1 < q
      BY <2>2
    <2>8. j = ps[i + 1].first
      BY <1>1, <2>1, <2>3, <2>4, <2>6, <2>7, PartIsUnique DEF In, Part
    <2>9. QED
      BY <2>3, <2>8
  <1>4. ASSUME i < Len(ps), j = ps[i + 1].first
        PROVE  NextTo(a, k, j)
    <2>1. /\ i + 1 \in 1 .. Len(ps) /\ i < i + 1
          /\ ps[i + 1] \in Part /\ Fits(a, ps[i + 1], Len(a))
      BY <1>1, <1>4
    <2>2. In(j, ps[i + 1]) /\ j \in Nat
      BY <1>1, <1>4, <2>1 DEF Fits, In, Part
    <2>3. a[j].form # "blank"
      BY <1>1, <2>1, <2>2, LinesOfPart
    <2>4. ps[i].last < j
      BY <1>4, <2>1 DEF PartsFor
    <2>5. j \notin BlockOf(a, k)
      BY <1>1, <1>2, <2>2, <2>4 DEF Part
    <2>6. ASSUME NEW m \in 1 .. Len(a), k < m, m < j, a[m].form # "blank"
          PROVE  m \in BlockOf(a, k)
      <3>1. PICK q \in 1 .. Len(ps) : In(m, ps[q]) /\ m \in Nat
        BY <1>1, <2>6 DEF PartsFor
      <3>2. q <= i
        <4>1. q # i + 1
          BY <1>1, <1>4, <2>1, <2>6, <3>1 DEF In, Part
        <4>2. ~(i + 1 < q)
          BY <2>1, <2>2, <2>6, <3>1, PartIsUnique
        <4>3. QED
          BY <4>1, <4>2
      <3>3. ~(q < i)
        BY <1>1, <2>6, <3>1, PartIsUnique
      <3>4. QED
        BY <1>1, <1>2, <2>6, <3>1, <3>2, <3>3 DEF In, Part
    <2>7. QED
      BY <1>1, <2>3, <2>5, <2>6 DEF NextTo
  <1>5. QED
    BY <1>3, <1>4

\* And above it the one before.
LEMMA NextBefore ==
  ASSUME NEW a \in Seq(Line), NEW ps, PartsFor(a, ps, Len(a)),
         NEW i \in 1 .. Len(ps), NEW k \in Nat, In(k, ps[i]), NEW j \in 1 .. k - 1
  PROVE  NextTo(a, k, j) <=> i > 1 /\ j = ps[i - 1].last
  <1>1. /\ \A h \in 1 .. Len(ps) : ps[h] \in Part /\ Fits(a, ps[h], Len(a))
        /\ Len(a) \in Nat /\ DOMAIN a = 1 .. Len(a) /\ Len(ps) \in Nat
    BY DEF PartsFor
  <1>2. k \in 1 .. Len(a) /\ BlockOf(a, k) = ps[i].first .. ps[i].last
    BY BlockIs
  <1>3. ASSUME NextTo(a, k, j)
        PROVE  i > 1 /\ j = ps[i - 1].last
    <2>1. PICK q \in 1 .. Len(ps) : In(j, ps[q])
      <3>1. a[j].form # "blank" /\ j \in 1 .. Len(a)
        BY <1>2, <1>3 DEF NextTo
      <3>2. QED
        BY <3>1 DEF PartsFor
    <2>2. q < i
      <3>1. q # i
        BY <1>1, <1>2, <1>3, <2>1 DEF NextTo, In, Part
      <3>2. ~(i < q)
        <4>1. j \in Nat /\ j < k
          OBVIOUS
        <4>2. i < q => k < j
          BY <1>1, <2>1, <4>1, PartIsUnique
        <4>3. QED
          BY <4>1, <4>2
      <3>3. QED
        BY <3>1, <3>2
    <2>3. i - 1 \in 1 .. Len(ps) /\ i - 1 < i
      BY <2>2
    <2>4. /\ ps[i - 1].last \in Nat /\ In(ps[i - 1].last, ps[i - 1])
          /\ ps[i - 1].last < k /\ ps[i - 1].last \in 1 .. Len(a)
          /\ a[ps[i - 1].last].form # "blank"
      <3>1. ps[i - 1] \in Part /\ Fits(a, ps[i - 1], Len(a))
        BY <1>1, <2>3
      <3>2. ps[i - 1].last \in Nat /\ In(ps[i - 1].last, ps[i - 1])
        BY <3>1 DEF Fits, In, Part
      <3>3. QED
        <4>1. ps[i - 1].last < k
          BY <1>1, <2>3, <3>2, PartIsUnique
        <4>2. ps[i - 1].last \in 1 .. Len(a) /\ a[ps[i - 1].last].form # "blank"
          BY <1>1, <3>1, <3>2, LinesOfPart
        <4>3. QED
          BY <3>2, <4>1, <4>2
    <2>5. ps[i - 1].last \notin ps[i].first .. ps[i].last
      <3>1. ps[i - 1].last < ps[i].first
        BY <2>3 DEF PartsFor
      <3>2. QED
        BY <1>1, <2>4, <3>1 DEF Part
    <2>6. ~(j < ps[i - 1].last)
      BY <1>1, <1>2, <1>3, <2>4, <2>5 DEF NextTo
    <2>7. q = i - 1 \/ q < i - 1
      BY <2>2
    <2>8. j = ps[i - 1].last
      <3>1. ~(q < i - 1)
        <4>1. q < i - 1 => j < ps[i - 1].last
          BY <2>1, <2>3, <2>4, PartIsUnique
        <4>2. QED
          BY <2>6, <4>1
      <3>2. j <= ps[i - 1].last
        BY <2>1, <2>7, <3>1 DEF In
      <3>3. QED
        BY <2>4, <2>6, <3>2
    <2>9. QED
      BY <2>2, <2>8
  <1>4. ASSUME i > 1, j = ps[i - 1].last
        PROVE  NextTo(a, k, j)
    <2>1. /\ i - 1 \in 1 .. Len(ps) /\ i - 1 < i
          /\ ps[i - 1] \in Part /\ Fits(a, ps[i - 1], Len(a))
      BY <1>1, <1>4
    <2>2. In(j, ps[i - 1]) /\ j \in Nat
      BY <1>1, <1>4, <2>1 DEF Fits, In, Part
    <2>3. a[j].form # "blank"
      BY <1>1, <2>1, <2>2, LinesOfPart
    <2>4. j < ps[i].first
      BY <1>4, <2>1 DEF PartsFor
    <2>5. j \notin BlockOf(a, k)
      BY <1>1, <1>2, <2>2, <2>4 DEF Part
    <2>6. ASSUME NEW m \in 1 .. Len(a), j < m, m < k, a[m].form # "blank"
          PROVE  m \in BlockOf(a, k)
      <3>1. PICK q \in 1 .. Len(ps) : In(m, ps[q]) /\ m \in Nat
        BY <1>1, <2>6 DEF PartsFor
      <3>2. i <= q
        <4>1. q # i - 1
          BY <1>1, <1>4, <2>1, <2>6, <3>1 DEF In, Part
        <4>2. ~(q < i - 1)
          BY <2>1, <2>2, <2>6, <3>1, PartIsUnique
        <4>3. QED
          BY <4>1, <4>2
      <3>3. ~(i < q)
        BY <1>1, <2>6, <3>1, PartIsUnique
      <3>4. QED
        BY <1>1, <1>2, <2>6, <3>1, <3>2, <3>3 DEF In, Part
    <2>7. QED
      BY <1>1, <2>3, <2>5, <2>6 DEF NextTo
  <1>5. QED
    BY <1>3, <1>4

-----------------------------------------------------------------------------
(* What a claim rests on *)

\* Only a heading changes what is above.
LEMMA CitedAboveStays ==
  ASSUME NEW a, NEW m \in Nat, NEW n \in Nat, m <= n,
         \A k \in m + 1 .. n : a[k].form # "heading"
  PROVE  CitedAbove(a, n) <=> CitedAbove(a, m)
  <1>1. \A h \in 1 .. n : a[h].form = "heading" => h \in 1 .. m
    OBVIOUS
  <1>2. \A h \in 1 .. m :
          (\A k \in h + 1 .. n : a[k].form # "heading")
            <=> (\A k \in h + 1 .. m : a[k].form # "heading")
    OBVIOUS
  <1>3. 1 .. m \subseteq 1 .. n
    OBVIOUS
  <1>4. QED
    BY <1>1, <1>2, <1>3 DEF CitedAbove

\* The lines after the blocks before and before line k of this one.
LEMMA LinesBefore ==
  ASSUME NEW a \in Seq(Line), NEW ps, PartsFor(a, ps, Len(a)),
         NEW i \in 1 .. Len(ps), NEW k \in Nat, In(k, ps[i]),
         NEW j \in EndOf(ps, i - 1) + 1 .. k
  PROVE  /\ j \in 1 .. Len(a) /\ EndOf(ps, i - 1) \in Nat /\ EndOf(ps, i - 1) < ps[i].first
         /\ a[j].form = "blank" \/ In(j, ps[i])
  <1>1. /\ \A h \in 1 .. Len(ps) : ps[h] \in Part /\ Fits(a, ps[h], Len(a))
        /\ Len(a) \in Nat /\ Len(ps) \in Nat
    BY DEF PartsFor
  <1>2. EndOf(ps, i - 1) \in Nat /\ EndOf(ps, i - 1) < ps[i].first
    <2>1. CASE i = 1
      BY <1>1, <2>1 DEF EndOf, Fits, Part
    <2>2. CASE i # 1
      <3>1. i - 1 \in 1 .. Len(ps) /\ i - 1 < i /\ i - 1 # 0
        BY <2>2
      <3>2. QED
        BY <1>1, <3>1 DEF EndOf, Part, PartsFor
    <2>3. QED
      BY <2>1, <2>2
  <1>3. j \in 1 .. Len(a) /\ j \in Nat
    BY <1>1, <1>2, LinesOfPart
  <1>4. ASSUME a[j].form # "blank"
        PROVE  In(j, ps[i])
    <2>1. PICK q \in 1 .. Len(ps) : In(j, ps[q])
      BY <1>3, <1>4 DEF PartsFor
    <2>2. ~(i < q)
      BY <1>3, <2>1, PartIsUnique
    <2>3. ~(q < i)
      <3>1. SUFFICES ASSUME q < i PROVE FALSE
        OBVIOUS
      <3>2. /\ i - 1 \in 1 .. Len(ps) /\ EndOf(ps, i - 1) = ps[i - 1].last
            /\ (q = i - 1 \/ q < i - 1)
        BY <3>1 DEF EndOf
      <3>3. ps[q].last <= ps[i - 1].last
        <4>1. q < i - 1 => ps[q].last < ps[i - 1].first
          BY <3>2 DEF PartsFor
        <4>2. ps[i - 1].first <= ps[i - 1].last
          BY <1>1, <3>2 DEF Fits
        <4>3. QED
          BY <1>1, <3>2, <4>1, <4>2 DEF Part
      <3>4. QED
        BY <1>1, <1>2, <1>3, <2>1, <3>2, <3>3 DEF In, Part
    <2>4. QED
      BY <2>1, <2>2, <2>3
  <1>5. QED
    BY <1>2, <1>3, <1>4

\* The lines of a block that is no heading stand under the heading above it.
LEMMA SectionIs ==
  ASSUME NEW a \in Seq(Line), NEW ps, PartsFor(a, ps, Len(a)),
         NEW i \in 1 .. Len(ps), NEW k \in Nat, In(k, ps[i]), ps[i].kind # "heading"
  PROVE  /\ CitedSection(a, k) <=> CitedAbove(a, EndOf(ps, i - 1))
         /\ CitedAbove(a, k) <=> CitedAbove(a, EndOf(ps, i - 1))
  <1>1. ps[i] \in Part /\ Fits(a, ps[i], Len(a)) /\ Len(a) \in Nat
    BY DEF PartsFor
  <1>2. k \in 1 .. Len(a) /\ ps[i].first <= k
    BY <1>1, LinesOfPart DEF In
  <1>3. \A j \in EndOf(ps, i - 1) + 1 .. k : a[j].form # "heading"
    <2>1. ASSUME NEW j \in EndOf(ps, i - 1) + 1 .. k, a[j].form = "heading"
          PROVE  FALSE
      <3>1. j \in Nat /\ In(j, ps[i])
        BY <2>1, LinesBefore
      <3>2. QED
        BY <1>1, <2>1, <3>1, LinesOfPart
    <2>2. QED
      BY <2>1
  <1>4. EndOf(ps, i - 1) \in Nat /\ EndOf(ps, i - 1) < k
    <2>1. CASE i = 1
      BY <1>2, <2>1 DEF EndOf
    <2>2. CASE i # 1
      <3>1. i - 1 \in 1 .. Len(ps) /\ i - 1 < i /\ EndOf(ps, i - 1) = ps[i - 1].last
        BY <2>2 DEF EndOf
      <3>2. ps[i - 1] \in Part /\ ps[i - 1].last < ps[i].first
        BY <3>1 DEF PartsFor
      <3>3. QED
        BY <1>1, <1>2, <3>1, <3>2 DEF Part
    <2>3. QED
      BY <2>1, <2>2
  <1>5. CitedSection(a, k) <=> CitedAbove(a, k - 1)
    BY DEF CitedSection, CitedAbove
  <1>6. CitedAbove(a, k - 1) <=> CitedAbove(a, EndOf(ps, i - 1))
    <2>1. k - 1 \in Nat /\ EndOf(ps, i - 1) <= k - 1
      BY <1>4
    <2>2. \A j \in EndOf(ps, i - 1) + 1 .. k - 1 : a[j].form # "heading"
      BY <1>3, <1>4
    <2>3. QED
      BY <1>4, <2>1, <2>2, CitedAboveStays
  <1>7. CitedAbove(a, k) <=> CitedAbove(a, EndOf(ps, i - 1))
    BY <1>3, <1>4, CitedAboveStays
  <1>8. QED
    BY <1>5, <1>6, <1>7

\* What the code asks of a block is what the docstring asks of its claims, but for
\* those it overlooks.
LEMMA SupportedIs ==
  ASSUME problem.answer \in Seq(Line), PartsFor(problem.answer, parts, Len(problem.answer)),
         NEW i \in 1 .. Len(parts), NEW k \in Nat, In(k, parts[i]),
         parts[i].kind # "heading"
  PROVE  IsCounted(problem.answer, k) <=>
           \/ problem.answer[k].figure = "known"
           \/ CitedAbove(problem.answer, EndOf(parts, i - 1))
           \/ Supported(i)
  <1> DEFINE a == problem.answer
  <1>1. /\ \A h \in 1 .. Len(parts) : parts[h] \in Part /\ Fits(a, parts[h], Len(a))
        /\ Len(a) \in Nat /\ Len(parts) \in Nat /\ PartsFor(a, parts, Len(a)) /\ a \in Seq(Line)
    BY DEF PartsFor
  <1>2. /\ k \in 1 .. Len(a) /\ (InComposite(a, k) <=> Composite(parts[i]))
        /\ BlockOf(a, k) = parts[i].first .. parts[i].last
    BY BlockIs
  <1> HIDE DEF a
  <1>3. CitedSection(a, k) <=> CitedAbove(a, EndOf(parts, i - 1))
    BY <1>1, SectionIs
  <1>4. CitedAmong(a, BlockOf(a, k)) <=> CitesValid(parts[i])
    BY <1>2 DEF CitedAmong, CitesValid, a
  <1>5. (\E j \in k + 1 .. Len(a) :
           /\ NextTo(a, k, j)
           /\ InComposite(a, k) \/ a[j].form = "tags"
           /\ CitedAmong(a, BlockOf(a, j)))
          <=> /\ i < Len(parts)
              /\ parts[i + 1].kind = "cite" \/ Composite(parts[i])
              /\ CitesValid(parts[i + 1])
    <2>1. CASE ~(i < Len(parts))
      BY <1>1, <2>1, NextAfter
    <2>2. CASE i < Len(parts)
      <3> DEFINE j == parts[i + 1].first
      <3>1. i + 1 \in 1 .. Len(parts) /\ i < i + 1
        BY <1>1, <2>2
      <3>2. parts[i + 1] \in Part /\ Fits(a, parts[i + 1], Len(a))
        BY <1>1, <3>1
      <3>3. j \in Nat /\ In(j, parts[i + 1])
        BY <3>2 DEF Fits, In, Part
      <3>4. k < j
        <4>1. parts[i].last < parts[i + 1].first
          BY <1>1, <3>1 DEF PartsFor
        <4>2. k <= parts[i].last /\ parts[i] \in Part
          BY <1>1 DEF In
        <4>3. QED
          BY <3>3, <4>1, <4>2 DEF Part
      <3>5. j \in 1 .. Len(a) /\ BlockOf(a, j) = parts[i + 1].first .. parts[i + 1].last
        BY <1>1, <3>1, <3>3, BlockIs
      <3>6. CitedAmong(a, BlockOf(a, j)) <=> CitesValid(parts[i + 1])
        BY <3>5 DEF CitedAmong, CitesValid, a
      <3>7. a[j].form = "tags" <=> parts[i + 1].kind = "cite"
        <4>1. parts[i + 1].kind = KindOf[a[j].form]
          BY <3>2 DEF Fits
        <4>2. a[j].form \in {"blank", "heading", "row", "item", "tags", "text"}
          BY <1>1, <3>5, LineFields
        <4>3. QED
          BY <4>1, <4>2, KindOfForm
      <3>8. j \in k + 1 .. Len(a)
        BY <1>1, <3>4, <3>5
      <3>9. \A m \in k + 1 .. Len(a) : NextTo(a, k, m) <=> m = j
        BY <1>1, <2>2, NextAfter
      <3> HIDE DEF j
      <3>10. QED
        BY <1>2, <2>2, <3>6, <3>7, <3>8, <3>9
    <2>3. QED
      BY <2>1, <2>2
  <1>6. (/\ InComposite(a, k)
         /\ \E j \in 1 .. k - 1 :
              /\ NextTo(a, k, j)
              /\ a[j].form = "text" /\ ~InComposite(a, j)
              /\ a[j].cites = "valid" /\ a[j].colon)
          <=> /\ i > 1 /\ Composite(parts[i])
              /\ parts[i - 1].kind = "prose"
              /\ CitesValid(parts[i - 1])
              /\ a[parts[i - 1].last].colon
    <2>1. CASE ~(i > 1)
      BY <1>1, <2>1, NextBefore
    <2>2. CASE i > 1
      <3> DEFINE j == parts[i - 1].last
      <3>1. i - 1 \in 1 .. Len(parts) /\ i - 1 < i
        BY <1>1, <2>2
      <3>2. parts[i - 1] \in Part /\ Fits(a, parts[i - 1], Len(a))
        BY <1>1, <3>1
      <3>3. j \in Nat /\ In(j, parts[i - 1])
        BY <3>2 DEF Fits, In, Part
      <3>4. j < k
        BY <1>1, <3>1, <3>3, PartIsUnique
      <3>5. j \in 1 .. Len(a) /\ (InComposite(a, j) <=> Composite(parts[i - 1]))
        BY <1>1, <3>1, <3>3, BlockIs
      <3>6. a[j].form = "text" /\ ~InComposite(a, j) <=> parts[i - 1].kind = "prose"
        <4>1. ~Composite(parts[i - 1]) => parts[i - 1].kind = KindOf[a[j].form]
          BY <1>1, <3>2, <3>3, LinesOfPart
        <4>2. parts[i - 1].kind = "prose" => ~Composite(parts[i - 1])
          BY DEF Composite
        <4>3. a[j].form \in {"blank", "heading", "row", "item", "tags", "text"}
          BY <1>1, <3>5, LineFields
        <4>4. QED
          BY <3>5, <4>1, <4>2, <4>3, KindOfForm
      <3>7. parts[i - 1].kind = "prose" => (CitesValid(parts[i - 1]) <=> a[j].cites = "valid")
        <4>1. SUFFICES ASSUME parts[i - 1].kind = "prose"
                       PROVE  CitesValid(parts[i - 1]) <=> a[j].cites = "valid"
          OBVIOUS
        <4>2. j = parts[i - 1].first
          BY <1>1, <3>2, <3>3, <4>1, LinesOfPart DEF Composite
        <4>3. parts[i - 1].first .. parts[i - 1].last = {j}
          BY <3>3, <4>2
        <4>4. QED
          BY <4>3 DEF CitesValid, a
      <3>8. j \in 1 .. k - 1
        BY <1>1, <3>4, <3>5
      <3>9. \A m \in 1 .. k - 1 : NextTo(a, k, m) <=> m = j
        BY <1>1, <2>2, NextBefore
      <3> HIDE DEF j
      <3>10. a[parts[i - 1].last] = a[j]
        BY DEF j
      <3>11. QED
        BY <1>2, <2>2, <3>6, <3>7, <3>8, <3>9, <3>10
    <2>3. QED
      BY <2>1, <2>2
  <1>7. Supported(i) <=>
          \/ CitesValid(parts[i])
          \/ /\ i < Len(parts)
             /\ parts[i + 1].kind = "cite" \/ Composite(parts[i])
             /\ CitesValid(parts[i + 1])
          \/ /\ i > 1 /\ Composite(parts[i])
             /\ parts[i - 1].kind = "prose"
             /\ CitesValid(parts[i - 1])
             /\ a[parts[i - 1].last].colon
    BY DEF Supported, a
  <1>8. IsCounted(a, k) <=>
          \/ IsCovered(a, k)
          \/ \E j \in 1 .. k - 1 :
               Introduces(a, j, k) /\ a[j].form = "text" /\ ~InComposite(a, j)
    BY DEF IsCounted, IsBacked, IsOverlooked
  <1>9. IsCounted(a, k) <=>
          a[k].figure = "known" \/ CitedAbove(a, EndOf(parts, i - 1)) \/ Supported(i)
    BY <1>3, <1>4, <1>5, <1>6, <1>7, <1>8 DEF IsCovered, Introduces
  <1>10. QED
    BY <1>9 DEF a

-----------------------------------------------------------------------------
(* Counting *)

\* A block more.
LEMMA ClaimsOfMore ==
  ASSUME NEW a \in Seq(Line), NEW ps, PartsFor(a, ps, Len(a)), NEW i \in 1 .. Len(ps)
  PROVE  LET more == {k \in ps[i].first .. ps[i].last : a[k].figure # "none"} IN
         /\ EndOf(ps, i) = ps[i].last /\ ps[i].last \in 1 .. Len(a)
         /\ EndOf(ps, i - 1) \in Nat /\ EndOf(ps, i - 1) < ps[i].first
         /\ ps[i].kind = "heading" =>
              ClaimsUpTo(a, ps[i].last) = ClaimsUpTo(a, EndOf(ps, i - 1))
         /\ ps[i].kind # "heading" =>
              /\ ClaimsUpTo(a, ps[i].last) = ClaimsUpTo(a, EndOf(ps, i - 1)) \cup more
              /\ more \cap ClaimsUpTo(a, EndOf(ps, i - 1)) = {}
  <1> DEFINE more == {k \in ps[i].first .. ps[i].last : a[k].figure # "none"}
             before == EndOf(ps, i - 1)
  <1>1. ps[i] \in Part /\ Fits(a, ps[i], Len(a)) /\ Len(a) \in Nat /\ DOMAIN a = 1 .. Len(a)
    BY DEF PartsFor
  <1>2. ps[i].last \in Nat /\ In(ps[i].last, ps[i]) /\ ps[i].first \in Nat
    BY <1>1 DEF In, Part, Fits
  <1>3. ps[i].last \in 1 .. Len(a) /\ EndOf(ps, i) = ps[i].last
    BY <1>1, <1>2 DEF EndOf, Fits
  <1>4. before \in Nat /\ before < ps[i].first
    <2>1. CASE i = 1
      <3>1. before = 0
        BY <2>1 DEF EndOf
      <3>2. QED
        BY <1>1, <1>2, <3>1 DEF Fits
    <2>2. CASE i # 1
      <3>1. i - 1 \in 1 .. Len(ps) /\ i - 1 < i /\ before = ps[i - 1].last
        BY <2>2 DEF EndOf
      <3>2. ps[i - 1] \in Part /\ ps[i - 1].last < ps[i].first
        BY <3>1 DEF PartsFor
      <3>3. QED
        BY <3>1, <3>2 DEF Part
    <2>3. QED
      BY <2>1, <2>2
  <1> HIDE DEF before
  <1>5. ASSUME NEW k \in 1 .. Len(a)
        PROVE  k <= ps[i].last <=> k <= before \/ k \in before + 1 .. ps[i].last
    <2>1. before <= ps[i].last
      BY <1>1, <1>2, <1>4 DEF Fits
    <2>2. QED
      BY <1>2, <1>4, <2>1
  <1>6. \A k \in before + 1 .. ps[i].last : k \in 1 .. Len(a) /\ (a[k].form = "blank" \/ In(k, ps[i]))
    BY <1>2, <1>4, LinesBefore DEF before
  <1>7. \A k \in 1 .. Len(a) : a[k].form = "blank" => a[k].figure = "none"
    BY LineFields
  <1>8. \A k \in 1 .. Len(a) :
          In(k, ps[i]) => (a[k].form = "heading" <=> ps[i].kind = "heading")
    BY <1>1, LinesOfPart
  <1>9. ASSUME NEW k \in 1 .. Len(a), k \in Claims(a), k <= ps[i].last
        PROVE  k <= before \/ (k \in more /\ ps[i].kind # "heading")
    BY <1>1, <1>5, <1>6, <1>7, <1>8, <1>9 DEF Claims, In
  <1>10. ASSUME ps[i].kind # "heading", NEW k \in more
         PROVE  k \in Claims(a) /\ k <= ps[i].last /\ ~(k <= before)
    <2>1. k \in 1 .. Len(a) /\ In(k, ps[i]) /\ before < k
      BY <1>1, <1>2, <1>4, <1>10 DEF In, Fits
    <2>2. a[k].form # "heading"
      BY <1>8, <1>10, <2>1
    <2>3. QED
      BY <1>1, <1>2, <1>4, <1>10, <2>1, <2>2 DEF Claims
  <1>11. \A k \in Claims(a) : k \in 1 .. Len(a) /\ (k <= before => k <= ps[i].last)
    BY <1>1, <1>5 DEF Claims
  <1> HIDE DEF more
  <1>12. ps[i].kind = "heading" => ClaimsUpTo(a, ps[i].last) = ClaimsUpTo(a, before)
    BY <1>9, <1>11 DEF ClaimsUpTo
  <1>13. ps[i].kind # "heading" =>
           /\ ClaimsUpTo(a, ps[i].last) = ClaimsUpTo(a, before) \cup more
           /\ more \cap ClaimsUpTo(a, before) = {}
    BY <1>9, <1>10, <1>11 DEF ClaimsUpTo
  <1>14. QED
    BY <1>3, <1>4, <1>12, <1>13 DEF more, before

\* Claims are finitely many.
LEMMA ClaimsAreFinite ==
  ASSUME NEW a \in Seq(Line), NEW S, S \subseteq Claims(a)
  PROVE  IsFiniteSet(S) /\ Cardinality(S) \in Nat
  <1>1. Len(a) \in Nat /\ S \in SUBSET (1 .. Len(a))
    BY DEF Claims
  <1>2. IsFiniteSet(1 .. Len(a))
    BY <1>1, FS_Interval
  <1>3. IsFiniteSet(S)
    BY <1>1, <1>2, FS_Subset
  <1>4. QED
    BY <1>3, FS_CardinalityType

\* Disjoint claims are counted apart.
LEMMA CountsAdd ==
  ASSUME NEW a \in Seq(Line), NEW S, NEW T, S \subseteq Claims(a), T \subseteq Claims(a),
         S \cap T = {}
  PROVE  Cardinality(S \cup T) = Cardinality(S) + Cardinality(T)
  <1>1. IsFiniteSet(S) /\ IsFiniteSet(T) /\ Cardinality(S) \in Nat /\ Cardinality(T) \in Nat
    BY ClaimsAreFinite
  <1>2. Cardinality(S \cap T) = 0
    BY FS_EmptySet
  <1>3. QED
    <2>1. Cardinality(S \cup T) = Cardinality(S) + Cardinality(T) - Cardinality(S \cap T)
      BY <1>1, FS_Union
    <2>2. QED
      BY <1>1, <1>2, <2>1

\* A turn of the loop that scores the blocks.
LEMMA WeighStep ==
  ASSUME ChecksInv, WeighPart
  PROVE  ChecksInv'
  <1> DEFINE a == problem.answer
             i == turn + 1
             part == parts[i]
             supported == tally.sectionCited \/ Supported(i)
             more == ClaimsIn(part)
             before == EndOf(parts, turn)
  <1>1. /\ loop = "weigh" /\ turn \in Nat /\ turn < Len(parts)
        /\ turn' = turn + 1 /\ UNCHANGED <<problem, loop, parts, picked>>
    BY DEF WeighPart, ChecksInv, ChecksTypeOK
  <1>2. /\ problem.about = "confidence" /\ problem.retrieved /\ Cited(a) # {}
        /\ a \in Seq(Line) /\ PartsFor(a, parts, Len(a)) /\ TallyOf(a, before)
    <2>1. problem.about = "confidence"
      BY <1>1, ProblemFields DEF ChecksInv, ChecksTypeOK, RiskInv
    <2>2. QED
      BY <1>1, <2>1, ProblemFields DEF ChecksInv, ChecksTypeOK, ConfidenceInv
  <1>3. /\ i \in 1 .. Len(parts) /\ i - 1 = turn
        /\ part \in Part /\ Fits(a, part, Len(a)) /\ Len(a) \in Nat
    <2>1. i \in 1 .. Len(parts) /\ i - 1 = turn
      BY <1>1, <1>2 DEF PartsFor
    <2>2. QED
      BY <1>2, <2>1 DEF PartsFor
  <1>4. /\ tally.claims \in Nat /\ tally.backed \in Nat /\ tally.sectionCited \in BOOLEAN
        /\ tally \in [claims : Nat, backed : Nat, sectionCited : BOOLEAN]
    BY DEF ChecksInv, ChecksTypeOK
  <1>5. /\ EndOf(parts, i) = part.last /\ part.last \in 1 .. Len(a)
        /\ before \in Nat /\ before < part.first
        /\ part.kind = "heading" => ClaimsUpTo(a, part.last) = ClaimsUpTo(a, before)
        /\ part.kind # "heading" =>
             /\ ClaimsUpTo(a, part.last) = ClaimsUpTo(a, before) \cup more
             /\ more \cap ClaimsUpTo(a, before) = {}
    <2>1. more = {k \in part.first .. part.last : a[k].figure # "none"}
      BY DEF ClaimsIn
    <2>2. EndOf(parts, i - 1) = before
      BY <1>3
    <2> HIDE DEF more, before, part, i, a
    <2>3. QED
      BY <1>2, <1>3, <2>1, <2>2, ClaimsOfMore DEF part
  <1>6. part.last \in Nat /\ In(part.last, part) /\ part.first \in Nat
    BY <1>3 DEF In, Part, Fits
  <1>7. /\ tally'.sectionCited <=> CitedAbove(a, part.last)
        /\ tally'.claims = Cardinality(ClaimsUpTo(a, part.last))
        /\ tally'.backed = Cardinality(BackedUpTo(a, part.last))
    <2>1. CASE part.kind = "heading"
      <3>1. tally' = [tally EXCEPT !.sectionCited = CitesValid(part)]
        BY <2>1 DEF WeighPart
      <3>2. tally'.claims = tally.claims /\ tally'.backed = tally.backed
            /\ tally'.sectionCited = CitesValid(part)
        BY <1>4, <3>1
      <3>3. part.first = part.last /\ a[part.last].form = "heading"
        BY <1>2, <1>3, <1>6, <2>1, LinesOfPart DEF Composite
      <3>4. CitesValid(part) <=> CitedAbove(a, part.last)
        <4>1. part.first .. part.last = {part.last} /\ part.last + 1 .. part.last = {}
          BY <1>6, <3>3
        <4>2. \A h \in 1 .. part.last : h = part.last \/ part.last \in h + 1 .. part.last
          BY <1>6
        <4>3. part.last \in 1 .. part.last
          BY <1>5
        <4>4. QED
          BY <3>3, <4>1, <4>2, <4>3 DEF CitesValid, CitedAbove
      <3>5. BackedUpTo(a, part.last) = BackedUpTo(a, before)
        BY <1>5, <2>1 DEF BackedUpTo, ClaimsUpTo
      <3>6. QED
        BY <1>2, <1>5, <2>1, <3>2, <3>4, <3>5 DEF TallyOf
    <2>2. CASE part.kind # "heading"
      <3> DEFINE good == {k \in more : supported \/ a[k].figure = "known"}
      <3>1. tally' = [tally EXCEPT !.claims = @ + Cardinality(more),
                                   !.backed = @ + Cardinality(good)]
        BY <2>2 DEF WeighPart
      <3>2. /\ tally'.claims = tally.claims + Cardinality(more)
            /\ tally'.backed = tally.backed + Cardinality(good)
            /\ tally'.sectionCited = tally.sectionCited
        BY <1>4, <3>1
      <3>3. CitedAbove(a, part.last) <=> CitedAbove(a, before)
        BY <1>2, <1>3, <1>6, <2>2, SectionIs
      <3>4. more \subseteq Claims(a) /\ ClaimsUpTo(a, before) \subseteq Claims(a)
        BY <1>5, <2>2 DEF ClaimsUpTo
      <3>5. \A k \in more : IsCounted(a, k) <=> supported \/ a[k].figure = "known"
        <4>1. \A k \in more : k \in Nat /\ In(k, part)
          BY <1>6 DEF ClaimsIn, In
        <4>2. supported <=> CitedAbove(a, before) \/ Supported(i)
          BY <1>2 DEF TallyOf
        <4>3. \A k \in more :
                IsCounted(a, k) <=>
                  a[k].figure = "known" \/ CitedAbove(a, EndOf(parts, i - 1)) \/ Supported(i)
          BY <1>2, <1>3, <2>2, <4>1, SupportedIs
        <4>4. QED
          BY <1>3, <4>2, <4>3
      <3>6. BackedUpTo(a, part.last) = BackedUpTo(a, before) \cup good
        BY <1>5, <2>2, <3>5 DEF BackedUpTo, ClaimsUpTo
      <3>7. Cardinality(ClaimsUpTo(a, part.last)) = tally.claims + Cardinality(more)
        <4>1. ClaimsUpTo(a, before) \cap more = {}
          BY <1>5, <2>2
        <4>2. QED
          BY <1>2, <1>5, <2>2, <3>4, <4>1, CountsAdd DEF TallyOf
      <3>8. Cardinality(BackedUpTo(a, part.last)) = tally.backed + Cardinality(good)
        <4>1. BackedUpTo(a, before) \subseteq ClaimsUpTo(a, before) /\ good \subseteq more
          BY DEF BackedUpTo, ClaimsUpTo
        <4>2. BackedUpTo(a, before) \cap good = {}
          BY <1>5, <2>2, <4>1
        <4>3. QED
          BY <1>2, <3>4, <3>6, <4>1, <4>2, CountsAdd DEF TallyOf
      <3>9. QED
        BY <1>2, <3>2, <3>3, <3>7, <3>8 DEF TallyOf
    <2>3. QED
      BY <2>1, <2>2
  <1>8. tally' \in [claims : Nat, backed : Nat, sectionCited : BOOLEAN]
    <2>1. tally' = IF part.kind = "heading" THEN [tally EXCEPT !.sectionCited = CitesValid(part)]
                   ELSE [tally EXCEPT
                           !.claims = @ + Cardinality(more),
                           !.backed = @ + Cardinality({k \in more :
                                             supported \/ a[k].figure = "known"})]
      BY DEF WeighPart
    <2>2. part.kind # "heading" =>
             Cardinality(more) \in Nat
             /\ Cardinality({k \in more : supported \/ a[k].figure = "known"}) \in Nat
      <3>1. part.kind # "heading" => more \subseteq Claims(a)
        BY <1>5 DEF ClaimsUpTo
      <3>2. QED
        BY <1>2, <3>1, ClaimsAreFinite
    <2>3. CitesValid(part) \in BOOLEAN
      BY DEF CitesValid
    <2>4. CASE part.kind = "heading"
      <3>1. tally' = [tally EXCEPT !.sectionCited = CitesValid(part)]
        BY <2>1, <2>4
      <3>2. QED
        BY <1>4, <2>3, <3>1
    <2>5. CASE part.kind # "heading"
      <3> DEFINE m == Cardinality(more)
                 g == Cardinality({k \in more : supported \/ a[k].figure = "known"})
      <3>1. tally' = [tally EXCEPT !.claims = @ + m, !.backed = @ + g] /\ m \in Nat /\ g \in Nat
        BY <2>1, <2>2, <2>5
      <3> HIDE DEF m, g
      <3>2. tally.claims + m \in Nat /\ tally.backed + g \in Nat
        BY <1>4, <3>1
      <3>3. tally' = [claims |-> tally.claims + m, backed |-> tally.backed + g,
                      sectionCited |-> tally.sectionCited]
        BY <1>4, <3>1
      <3>4. QED
        BY <1>4, <3>2, <3>3
    <2>6. QED
      BY <2>4, <2>5
  <1>9. ConfidenceInv'
    <2>1. EndOf(parts', turn') = part.last /\ problem'.answer = a
      BY <1>1, <1>5
    <2>2. TallyOf(problem.answer, EndOf(parts, turn))'
      BY <1>7, <2>1 DEF TallyOf
    <2>3. PartsFor(problem.answer, parts, Len(problem.answer))'
      BY <1>1, <1>2
    <2>4. turn' <= Len(parts')
      BY <1>1, <1>3
    <2>5. QED
      BY <1>1, <1>2, <2>2, <2>3, <2>4 DEF ConfidenceInv
  <1>10. QED
    BY <1>1, <1>2, <1>8, <1>9 DEF ChecksInv, ChecksTypeOK, RiskInv

-----------------------------------------------------------------------------
(* Cutting *)

\* What CutLine reads and writes of the blocks of the first n lines.
KindAbove(ps, n) ==
    IF ps # <<>> /\ ps[Len(ps)].last = n THEN ps[Len(ps)].kind ELSE "blank"

WithLine(ps, n, below) ==
    IF below = "blank" THEN ps
    ELSE IF below = KindAbove(ps, n) /\ below \in {"list", "table"}
    THEN [ps EXCEPT ![Len(ps)].last = n + 1]
    ELSE Append(ps, [kind |-> below, first |-> n + 1, last |-> n + 1])

\* What makes blocks those of the first n lines.
LEMMA ArePartsFor ==
  ASSUME NEW a, NEW n, NEW qs \in Seq(Part),
         \A i \in 1 .. Len(qs) : Fits(a, qs[i], n),
         \A i, j \in 1 .. Len(qs) : i < j => qs[i].last < qs[j].first,
         \A k \in 1 .. n : a[k].form # "blank" => \E i \in 1 .. Len(qs) : In(k, qs[i])
  PROVE  PartsFor(a, qs, n)
  BY Zenon DEF PartsFor

\* A line more.
LEMMA PartsOfMore ==
  ASSUME NEW a \in Seq(Line), NEW n \in Nat, n < Len(a), NEW ps, PartsFor(a, ps, n)
  PROVE  PartsFor(a, WithLine(ps, n, KindBelow(KindAbove(ps, n), a[n + 1])), n + 1)
  <1> DEFINE above == KindAbove(ps, n)
             below == KindBelow(above, a[n + 1])
             qs == WithLine(ps, n, below)
             line == a[n + 1]
             m == Len(ps)
             new == [kind |-> below, first |-> n + 1, last |-> n + 1]
  <1>1. /\ ps \in Seq(Part) /\ m \in Nat
        /\ \A i \in 1 .. m : ps[i] \in Part /\ Fits(a, ps[i], n)
        /\ \A i, j \in 1 .. m : i < j => ps[i].last < ps[j].first
        /\ \A k \in 1 .. n : a[k].form # "blank" => \E i \in 1 .. m : In(k, ps[i])
    BY DEF PartsFor
  <1>2. n + 1 \in 1 .. Len(a)
    OBVIOUS
  <1>3. /\ line.form \in {"blank", "heading", "row", "item", "tags", "text"}
        /\ line.indented \in BOOLEAN
    BY <1>2, LineFields
  <1>4. \A i \in 1 .. m : ps[i].first \in Nat /\ ps[i].last \in Nat /\ ps[i].first <= ps[i].last
                          /\ 1 <= ps[i].first /\ ps[i].last <= n
    BY <1>1 DEF Fits, Part
  <1>5. ps # <<>> <=> m # 0
    BY <1>1, EmptySeq
  <1>6. \A i \in 1 .. m : i < m => ps[i].last < n
    BY <1>1, <1>4
  <1>7. \A i \in 1 .. m : ps[i].last = n => i = m /\ above = ps[m].kind
    BY <1>1, <1>4, <1>5, <1>6 DEF KindAbove
  <1>8. above = "blank" \/ (m \in 1 .. m /\ ps[m].last = n /\ above = ps[m].kind)
    BY <1>1, <1>5 DEF KindAbove
  <1>9. below = above /\ below \in {"list", "table"} => Joins(above, line)
    BY <1>3, KindOfForm DEF KindBelow, Joins
  <1>10. Joins(above, line) => below = above /\ below \in {"list", "table"}
    BY <1>3, KindOfForm DEF KindBelow, Joins
  <1>11. ~Joins(above, line) => below = KindOf[line.form]
    BY <1>3, KindOfForm DEF KindBelow, Joins
  <1> SUFFICES PartsFor(a, qs, n + 1)
    OBVIOUS
  <1> HIDE DEF line, m, above, below, qs
  <1>12. \A k \in 1 .. n + 1 : k \in 1 .. n \/ k = n + 1
    OBVIOUS
  <1>13. CASE below = "blank"
    <2>1. qs = ps /\ ~Joins(above, line) /\ line.form = "blank"
      BY <1>3, <1>10, <1>11, <1>13, KindOfForm DEF qs, WithLine
    <2>2. ASSUME NEW i \in 1 .. m
          PROVE  Fits(a, ps[i], n + 1)
      <3>1. /\ Fits(a, ps[i], n) /\ ~Joins(ps[i].kind, a[n + 1])
            /\ ps[i].last \in Nat /\ ps[i].last <= n
        BY <1>1, <1>4, <2>1 DEF Joins, line
      <3>2. ps[i].last < n \/ ps[i].last = n
        BY <3>1
      <3>3. QED
        BY <3>1, <3>2 DEF Fits
    <2>3. \A k \in 1 .. n + 1 : a[k].form # "blank" => \E i \in 1 .. m : In(k, ps[i])
      BY <1>1, <1>12, <2>1 DEF line
    <2>4. PartsFor(a, ps, n + 1)
      BY <1>1, <2>2, <2>3, ArePartsFor DEF m
    <2>5. QED
      BY <2>1, <2>4
  <1>14. CASE below # "blank" /\ below = above /\ below \in {"list", "table"}
    <2> DEFINE p == [ps[m] EXCEPT !.last = n + 1]
    <2>1. /\ m \in 1 .. m /\ ps[m].last = n /\ above = ps[m].kind /\ Joins(above, line)
          /\ ps[m] \in Part /\ Fits(a, ps[m], n)
      BY <1>1, <1>8, <1>9, <1>14
    <2>2. /\ p \in Part /\ p.kind = ps[m].kind /\ p.first = ps[m].first /\ p.last = n + 1
      BY <2>1 DEF Part
    <2>3. qs = [ps EXCEPT ![m] = p]
      BY <1>14 DEF m, qs, above, WithLine
    <2> HIDE DEF p
    <2>4. /\ qs \in Seq(Part) /\ Len(qs) = m
          /\ \A j \in 1 .. m : qs[j] = IF j = m THEN p ELSE ps[j]
      <3>1. m \in 1 .. Len(ps) /\ p \in Part /\ ps \in Seq(Part)
        BY <1>1, <2>1, <2>2 DEF m
      <3>2. /\ [ps EXCEPT ![m] = p] \in Seq(Part) /\ Len([ps EXCEPT ![m] = p]) = Len(ps)
            /\ \A j \in 1 .. Len(ps) : [ps EXCEPT ![m] = p][j] = IF j = m THEN p ELSE ps[j]
        BY <3>1, ExceptSeq
      <3>3. QED
        BY <2>3, <3>2 DEF m
    <2>5. Fits(a, p, n + 1)
      <3>1. \A k \in p.first + 1 .. n + 1 : k \in p.first + 1 .. n \/ k = n + 1
        BY <1>4, <2>1, <2>2
      <3>2. QED
        BY <1>4, <2>1, <2>2, <3>1 DEF Fits, line
    <2>6. ASSUME NEW i \in 1 .. m, i # m
          PROVE  Fits(a, ps[i], n + 1)
      <3>1. ps[i].last < n /\ Fits(a, ps[i], n) /\ ps[i].last \in Nat
        BY <1>1, <1>4, <1>6, <2>6
      <3>2. QED
        BY <3>1 DEF Fits
    <2>7. \A i, j \in 1 .. m : i < j => qs[i].last < qs[j].first
      BY <1>1, <2>2, <2>4
    <2>8. ASSUME NEW k \in 1 .. n + 1, a[k].form # "blank"
          PROVE  \E i \in 1 .. m : In(k, qs[i])
      <3>1. CASE k = n + 1
        <4>1. In(k, p)
          BY <1>4, <2>1, <2>2, <3>1 DEF In
        <4>2. QED
          BY <2>1, <2>4, <4>1
      <3>2. CASE k \in 1 .. n
        <4>1. PICK i \in 1 .. m : In(k, ps[i])
          BY <1>1, <2>8, <3>2
        <4>2. In(k, qs[i])
          BY <1>4, <2>1, <2>2, <2>4, <4>1 DEF In
        <4>3. QED
          BY <4>2
      <3>3. QED
        BY <1>12, <3>1, <3>2
    <2>9. \A i \in 1 .. m : Fits(a, qs[i], n + 1)
      BY <2>4, <2>5, <2>6
    <2>10. QED
      <3>1. \A k \in 1 .. n + 1 : a[k].form # "blank" => \E i \in 1 .. Len(qs) : In(k, qs[i])
        BY <2>4, <2>8
      <3>2. \A i \in 1 .. Len(qs) : Fits(a, qs[i], n + 1)
        BY <2>4, <2>9
      <3>3. \A i, j \in 1 .. Len(qs) : i < j => qs[i].last < qs[j].first
        BY <2>4, <2>7
      <3>4. QED
        BY <2>4, <3>1, <3>2, <3>3, ArePartsFor
  <1>15. CASE below # "blank" /\ ~(below = above /\ below \in {"list", "table"})
    <2>1. ~Joins(above, line) /\ below = KindOf[line.form]
      BY <1>10, <1>11, <1>15
    <2>2. new \in Part /\ new.kind = below /\ new.first = n + 1 /\ new.last = n + 1
      BY <1>3, <1>15, <2>1, KindOfForm DEF Part
    <2>3. qs = Append(ps, new)
      BY <1>15 DEF qs, above, WithLine
    <2> HIDE DEF new
    <2>4. /\ qs \in Seq(Part) /\ Len(qs) = m + 1
          /\ \A j \in 1 .. m : qs[j] = ps[j]
          /\ qs[m + 1] = new
      BY <1>1, <2>2, <2>3, AppendProperties DEF m
    <2>5. Fits(a, new, n + 1)
      <3>1. new.first + 1 .. new.last = {}
        BY <2>2
      <3>2. QED
        BY <2>1, <2>2, <3>1 DEF Fits, line
    <2>6. ASSUME NEW i \in 1 .. m
          PROVE  Fits(a, ps[i], n + 1)
      <3>1. Fits(a, ps[i], n) /\ ps[i].last \in Nat /\ ps[i].last <= n
        BY <1>1, <1>4
      <3>2. ps[i].last = n => ~Joins(ps[i].kind, line)
        BY <1>7, <2>1
      <3>3. QED
        BY <3>1, <3>2 DEF Fits, line
    <2>7. 1 .. m + 1 = (1 .. m) \cup {m + 1} /\ m + 1 \in 1 .. m + 1
      BY <1>1
    <2>8. ASSUME NEW i \in 1 .. m + 1, NEW j \in 1 .. m + 1, i < j
          PROVE  qs[i].last < qs[j].first
      <3>1. i \in 1 .. m /\ qs[i] = ps[i]
        BY <1>1, <2>4, <2>8
      <3>2. CASE j = m + 1
        <4>1. ps[i].last \in Nat /\ ps[i].last <= n
          BY <1>4, <3>1
        <4>2. qs[j].first = n + 1
          BY <2>2, <2>4, <3>2
        <4>3. QED
          BY <3>1, <4>1, <4>2
      <3>3. CASE j \in 1 .. m
        BY <1>1, <2>4, <2>8, <3>1, <3>3
      <3>4. QED
        BY <2>7, <3>2, <3>3
    <2>9. ASSUME NEW k \in 1 .. n + 1, a[k].form # "blank"
          PROVE  \E i \in 1 .. m + 1 : In(k, qs[i])
      <3>1. CASE k = n + 1
        <4>1. In(k, new)
          BY <2>2, <3>1 DEF In
        <4>2. QED
          BY <2>4, <2>7, <4>1
      <3>2. CASE k \in 1 .. n
        BY <1>1, <2>4, <2>7, <2>9, <3>2
      <3>3. QED
        BY <1>12, <3>1, <3>2
    <2>10. ASSUME NEW i \in 1 .. m + 1
           PROVE  Fits(a, qs[i], n + 1)
      <3>1. CASE i = m + 1
        BY <2>4, <2>5, <3>1
      <3>2. CASE i \in 1 .. m
        BY <2>4, <2>6, <3>2
      <3>3. QED
        BY <2>7, <3>1, <3>2
    <2>11. QED
      <3>1. \A k \in 1 .. n + 1 : a[k].form # "blank" => \E i \in 1 .. Len(qs) : In(k, qs[i])
        BY <2>4, <2>9
      <3>2. \A i \in 1 .. Len(qs) : Fits(a, qs[i], n + 1)
        BY <2>4, <2>10
      <3>3. \A i, j \in 1 .. Len(qs) : i < j => qs[i].last < qs[j].first
        BY <2>4, <2>8
      <3>4. QED
        BY <2>4, <3>1, <3>2, <3>3, ArePartsFor
  <1>16. QED
    BY <1>13, <1>14, <1>15

\* A turn of the loop that cuts them.
LEMMA CutStep ==
  ASSUME ChecksInv, CutLine
  PROVE  ChecksInv'
  <1> DEFINE a == problem.answer
             above == IF AtPart THEN parts[Len(parts)].kind ELSE "blank"
             below == KindBelow(above, a[turn + 1])
  <1>1. /\ loop = "cut" /\ turn \in Nat /\ turn < Len(a)
        /\ turn' = turn + 1 /\ UNCHANGED <<problem, loop, tally, picked>>
        /\ parts' = (IF below = "blank" THEN parts
                     ELSE IF below = above /\ below \in {"list", "table"}
                     THEN [parts EXCEPT ![Len(parts)].last = turn + 1]
                     ELSE Append(parts, [kind |-> below, first |-> turn + 1, last |-> turn + 1]))
    BY DEF CutLine, ChecksInv, ChecksTypeOK
  <1>2. /\ problem.about = "confidence" /\ problem.retrieved /\ Cited(a) # {}
        /\ a \in Seq(Line) /\ PartsFor(a, parts, turn) /\ TallyOf(a, 0)
    <2>1. problem.about = "confidence"
      BY <1>1, ProblemFields DEF ChecksInv, ChecksTypeOK, RiskInv
    <2>2. QED
      BY <1>1, <2>1, ProblemFields DEF ChecksInv, ChecksTypeOK, ConfidenceInv
  <1>3. above = KindAbove(parts, turn)
    BY DEF AtPart, KindAbove
  <1>4. PartsFor(a, parts', turn + 1)
    <2>1. below = KindBelow(above, a[turn + 1])
      OBVIOUS
    <2> HIDE DEF above, below, a
    <2>2. parts' = WithLine(parts, turn, below)
      BY <1>1, <1>3 DEF WithLine
    <2>3. QED
      BY <1>1, <1>2, <1>3, <2>1, <2>2, PartsOfMore
  <1>5. Len(a) \in Nat /\ turn + 1 <= Len(a)
    BY <1>1, <1>2
  <1>6. PartsFor(problem.answer, parts, turn)' /\ TallyOf(problem.answer, 0)'
    BY <1>1, <1>2, <1>4 DEF TallyOf
  <1>7. ConfidenceInv'
    BY <1>1, <1>2, <1>5, <1>6 DEF ConfidenceInv
  <1>8. ChecksTypeOK'
    BY <1>1, <1>4 DEF ChecksInv, ChecksTypeOK, PartsFor
  <1>9. QED
    BY <1>1, <1>2, <1>7, <1>8 DEF ChecksInv, RiskInv

-----------------------------------------------------------------------------
(* A call *)

\* No claim is among no lines.
LEMMA NoLines ==
  ASSUME NEW a \in Seq(Line)
  PROVE  /\ ~CitedAbove(a, 0)
         /\ Cardinality(ClaimsUpTo(a, 0)) = 0 /\ Cardinality(BackedUpTo(a, 0)) = 0
         /\ PartsFor(a, <<>>, 0)
  <1>1. ClaimsUpTo(a, 0) = {} /\ BackedUpTo(a, 0) = {}
    BY DEF ClaimsUpTo, BackedUpTo, Claims
  <1>2. <<>> \in Seq(Part) /\ Len(<<>>) = 0
    BY EmptySeq
  <1>3. 1 .. 0 = {}
    OBVIOUS
  <1>4. QED
    BY <1>1, <1>2, <1>3, FS_EmptySet DEF CitedAbove, PartsFor

\* The blocks have all claims.
LEMMA AllClaims ==
  ASSUME NEW a \in Seq(Line), NEW ps, PartsFor(a, ps, Len(a))
  PROVE  /\ ClaimsUpTo(a, EndOf(ps, Len(ps))) = ClaimsUpTo(a, Len(a))
         /\ CitedAbove(a, EndOf(ps, Len(ps))) <=> CitedAbove(a, Len(a))
  <1> DEFINE m == Len(ps)
             end == EndOf(ps, m)
  <1>1. /\ m \in Nat /\ Len(a) \in Nat /\ DOMAIN a = 1 .. Len(a)
        /\ \A i \in 1 .. m : ps[i] \in Part /\ Fits(a, ps[i], Len(a))
    BY DEF PartsFor
  <1>2. end \in Nat /\ end <= Len(a)
    BY <1>1 DEF EndOf, Fits, Part
  <1>3. \A i \in 1 .. m : ps[i].last <= end
    <2>1. \A i \in 1 .. m : i < m => ps[i].last < ps[m].first
      BY <1>1 DEF PartsFor
    <2>2. ASSUME NEW i \in 1 .. m
          PROVE  ps[i].last <= end
      <3>1. m \in 1 .. m /\ end = ps[m].last
        BY <1>1 DEF EndOf
      <3>2. ps[m].first <= ps[m].last
        BY <1>1, <3>1 DEF Fits
      <3>3. ps[i] \in Part /\ ps[m] \in Part /\ (i = m \/ i < m)
        BY <1>1, <3>1
      <3>4. QED
        BY <2>1, <3>1, <3>2, <3>3 DEF Part
    <2>3. QED
      BY <2>2
  <1> HIDE DEF end
  <1>4. \A k \in 1 .. Len(a) : a[k].form # "blank" => k <= end
    <2>1. \A i \in 1 .. m : ps[i].last \in Nat
      BY <1>1 DEF Part
    <2>2. QED
      BY <1>2, <1>3, <2>1 DEF PartsFor, In
  <1>5. \A k \in Claims(a) : k \in 1 .. Len(a) /\ a[k].form # "blank"
    <2>1. \A k \in 1 .. Len(a) : a[k].form = "blank" => a[k].figure = "none"
      BY LineFields
    <2>2. QED
      BY <1>1, <2>1 DEF Claims
  <1>6. ClaimsUpTo(a, end) = ClaimsUpTo(a, Len(a))
    BY <1>2, <1>4, <1>5 DEF ClaimsUpTo
  <1>7. \A k \in end + 1 .. Len(a) : a[k].form # "heading"
    BY <1>1, <1>2, <1>4
  <1>8. CitedAbove(a, end) <=> CitedAbove(a, Len(a))
    BY <1>1, <1>2, <1>7, CitedAboveStays
  <1>9. QED
    BY <1>6, <1>8 DEF end

\* A loop ends.
LEMMA EndStep ==
  ASSUME ChecksInv, EndLoop
  PROVE  ChecksInv'
  <1> DEFINE a == problem.answer
  <1>1. /\ loop # "done" /\ turn = Turns /\ turn' = 0
        /\ loop' = (IF loop = "cut" THEN "weigh" ELSE "done")
        /\ UNCHANGED <<problem, parts, tally, picked>>
    BY DEF EndLoop
  <1>2. ChecksTypeOK'
    BY <1>1 DEF ChecksInv, ChecksTypeOK
  <1>3. CASE problem.about = "risk"
    <2>1. loop = "pick" /\ turn = Len(problem.clauses)
      BY <1>1, <1>3 DEF ChecksInv, RiskInv, Turns
    <2>2. loop' = "done" /\ picked'.named = NamedBy(problem'.clauses, Len(problem'.clauses))
      BY <1>1, <1>3, <2>1 DEF ChecksInv, RiskInv
    <2>3. QED
      BY <1>1, <1>2, <1>3, <2>2 DEF ChecksInv, RiskInv, ConfidenceInv
  <1>4. CASE problem.about = "confidence"
    <2>1. /\ problem.retrieved /\ Cited(a) # {} /\ loop \in {"cut", "weigh"}
          /\ a \in Seq(Line)
      BY <1>1, <1>4, ProblemFields DEF ChecksInv, ChecksTypeOK, ConfidenceInv
    <2>2. CASE loop = "cut"
      <3>1. turn = Len(a) /\ PartsFor(a, parts, Len(a)) /\ TallyOf(a, 0)
        BY <1>1, <1>4, <2>1, <2>2 DEF ChecksInv, ConfidenceInv, Turns
      <3>2. 0 <= Len(parts) /\ EndOf(parts, 0) = 0
        BY <3>1 DEF PartsFor, EndOf
      <3>3. loop' = "weigh" /\ turn' <= Len(parts') /\ EndOf(parts', turn') = 0
        BY <1>1, <2>2, <3>2
      <3>4. PartsFor(problem.answer, parts, Len(problem.answer))'
            /\ TallyOf(problem.answer, EndOf(parts, turn))'
        BY <1>1, <3>1, <3>3 DEF TallyOf
      <3>5. ConfidenceInv'
        BY <1>1, <1>4, <2>1, <3>3, <3>4 DEF ConfidenceInv
      <3>6. QED
        BY <1>1, <1>2, <1>4, <3>5 DEF ChecksInv, RiskInv
    <2>3. CASE loop = "weigh"
      <3>1. turn = Len(parts) /\ PartsFor(a, parts, Len(a)) /\ TallyOf(a, EndOf(parts, turn))
        BY <1>1, <1>4, <2>1, <2>3 DEF ChecksInv, ConfidenceInv, Turns
      <3>2. TallyOf(a, Len(a))
        <4>1. \A n : BackedUpTo(a, n) = {k \in ClaimsUpTo(a, n) : IsCounted(a, k)}
          BY DEF BackedUpTo, ClaimsUpTo
        <4> HIDE DEF a
        <4>2. QED
          BY <2>1, <3>1, <4>1, AllClaims DEF TallyOf
      <3>3. loop' = "done" /\ TallyOf(problem.answer, Len(problem.answer))'
        BY <1>1, <2>3, <3>2 DEF TallyOf
      <3>4. ConfidenceInv'
        BY <1>1, <1>4, <2>1, <3>3 DEF ConfidenceInv
      <3>5. QED
        BY <1>1, <1>2, <1>4, <3>4 DEF ChecksInv, RiskInv
    <2>4. QED
      BY <2>1, <2>2, <2>3
  <1>5. QED
    BY <1>3, <1>4, ProblemFields DEF ChecksInv, ChecksTypeOK

\* A call begins with nothing read.
LEMMA CheckInitEstablishes ==
  ASSUME CheckInit
  PROVE  ChecksInv
  <1>1. /\ problem \in ConfidenceProblem \cup RiskProblem
        /\ turn = 0 /\ parts = <<>>
        /\ tally = [claims |-> 0, backed |-> 0, sectionCited |-> FALSE]
        /\ picked = [inSection |-> FALSE, named |-> {}]
        /\ loop = IF problem.about = "risk" THEN "pick"
                  ELSE IF problem.retrieved /\ Cited(problem.answer) # {} THEN "cut"
                  ELSE "done"
    BY ProblemsAssumption DEF CheckInit
  <1>2. ChecksTypeOK
    BY <1>1, EmptySeq DEF ChecksTypeOK
  <1>3. ConfidenceInv
    <2>1. SUFFICES ASSUME problem.about = "confidence" PROVE ConfidenceInv
      BY DEF ConfidenceInv
    <2>2. problem.answer \in Seq(Line)
      BY <1>1, <2>1, ProblemFields
    <2>3. PartsFor(problem.answer, parts, 0) /\ TallyOf(problem.answer, 0)
      BY <1>1, <2>2, NoLines DEF TallyOf
    <2>4. QED
      BY <1>1, <2>1, <2>2, <2>3 DEF ConfidenceInv
  <1>4. RiskInv
    <2>1. SUFFICES ASSUME problem.about = "risk" PROVE RiskInv
      BY DEF RiskInv
    <2>2. problem.clauses \in Seq(Clause)
      BY <1>1, <2>1, ProblemFields
    <2>3. ~AdvisedAbove(problem.clauses, 0) /\ NamedBy(problem.clauses, 0) = {}
      BY DEF AdvisedAbove, NamedBy
    <2>4. QED
      BY <1>1, <2>1, <2>2, <2>3 DEF RiskInv
  <1>5. QED
    BY <1>2, <1>3, <1>4 DEF ChecksInv

\* Every step keeps the invariant.
LEMMA CheckStep ==
  ASSUME ChecksInv, [CheckNext]_checkVars
  PROVE  ChecksInv'
  <1>1. CASE UNCHANGED checkVars
    BY <1>1 DEF checkVars, ChecksInv, ChecksTypeOK, ConfidenceInv, RiskInv, TallyOf
  <1>2. QED
    BY <1>1, CutStep, WeighStep, PickStep, EndStep DEF CheckNext

\* A call keeps to its types and to what it has read so far.
THEOREM ChecksInvariant == CheckSpec => []ChecksInv
  <1>1. QED
    BY CheckInitEstablishes, CheckStep, PTL DEF CheckSpec

\* The score is what the docstring of estimate_confidence says, for answers of any
\* length, but for the claims that only a cited item, row or bare citation ending
\* in ":" would back: those it leaves out.
THEOREM ConfidenceFollowsTheDocstring == CheckSpec => []ConfidenceOverlooksOnlyColons
  <1>1. ASSUME ChecksInv, loop = "done", problem.about = "confidence", problem.retrieved
        PROVE  ConfidenceOverlooksOnlyColons
    <2> DEFINE a == problem.answer
               backed == {i \in Claims(a) : IsBacked(a, i)}
               counted == {i \in backed : ~IsOverlooked(a, i)}
    <2>1. a \in Seq(Line) /\ Len(a) \in Nat /\ DOMAIN a = 1 .. Len(a)
      BY <1>1, ProblemFields DEF ChecksInv, ChecksTypeOK
    <2>2. CASE Cited(a) = {}
      <3>1. Cardinality(Cited(a)) = 0
        BY <2>2, FS_EmptySet
      <3>2. Score.num = 0
        BY <1>1, <3>1 DEF Score, Fraction
      <3>3. QED
        BY <3>1, <3>2 DEF ConfidenceOverlooksOnlyColons
    <2>3. CASE Cited(a) # {}
      <3>1. TallyOf(a, Len(a))
        BY <1>1, <2>3 DEF ChecksInv, ConfidenceInv
      <3>2. ClaimsUpTo(a, Len(a)) = Claims(a) /\ BackedUpTo(a, Len(a)) = counted
        BY <2>1 DEF ClaimsUpTo, BackedUpTo, Claims, IsCounted
      <3>3. tally.claims = Cardinality(Claims(a)) /\ tally.backed = Cardinality(counted)
        BY <3>1, <3>2 DEF TallyOf
      <3>4. Cardinality(Cited(a)) # 0
        <4>1. IsFiniteSet(Cited(a))
          <5>1. IsFiniteSet(1 .. Len(a)) /\ Cited(a) \in SUBSET (1 .. Len(a))
            BY <2>1, FS_Interval DEF Cited
          <5>2. QED
            BY <5>1, FS_Subset
        <4>2. QED
          BY <2>3, <4>1, FS_EmptySet
      <3>5. QED
        BY <1>1, <3>3, <3>4 DEF ConfidenceOverlooksOnlyColons, Score
    <2>4. QED
      BY <2>2, <2>3
  <1>2. ChecksInv => ConfidenceOverlooksOnlyColons
    BY <1>1 DEF ConfidenceOverlooksOnlyColons
  <1>3. QED
    BY <1>2, ChecksInvariant, PTL

\* No answer that should be held escapes review, whatever its clauses.
THEOREM RiskyAnswersAreHeld == CheckSpec => []RiskyIsHeld
  <1>1. ASSUME ChecksInv, loop = "done", problem.about = "risk"
        PROVE  RiskyIsHeld
    <2> DEFINE n == Len(problem.clauses)
               recommended == {problem.clauses[i].names :
                                 i \in {j \in DOMAIN problem.clauses : Recommends(problem.clauses, j)}}
    <2>1. /\ problem.clauses \in Seq(Clause) /\ problem.reply \in {"NONE", "ACTION", "error"}
          /\ problem.adviceAsked \in BOOLEAN /\ problem.confident \in BOOLEAN
          /\ n \in Nat /\ DOMAIN problem.clauses = 1 .. n
      BY <1>1, ProblemFields DEF ChecksInv, ChecksTypeOK
    <2>2. picked.named = NamedBy(problem.clauses, n)
      BY <1>1 DEF ChecksInv, RiskInv
    <2>3. recommended = picked.named
      BY <2>1, <2>2 DEF NamedBy
    <2>4. recommended \subseteq {"nothing", "medium", "high"}
      <3>1. n <= Len(problem.clauses)
        BY <2>1
      <3>2. NamedBy(problem.clauses, n) \subseteq {"nothing", "medium", "high"}
        BY <2>1, <3>1, NamedType
      <3>3. QED
        BY <2>2, <2>3, <3>2
    <2> HIDE DEF recommended
    <2>5. Risk = "LOW" <=> /\ problem.reply = "NONE" /\ ~problem.adviceAsked /\ problem.confident
                           /\ recommended \subseteq {"nothing"}
      BY <2>1, <2>3, <2>4 DEF Risk, RecommendsAction
    <2>6. "high" \in recommended => Risk = "HIGH"
      BY <2>3 DEF Risk
    <2>7. QED
      BY <2>5, <2>6 DEF RiskyIsHeld, recommended
  <1>2. ChecksInv => RiskyIsHeld
    BY <1>1 DEF RiskyIsHeld
  <1>3. QED
    BY <1>2, ChecksInvariant, PTL
=============================================================================
