------------------------------ MODULE DmaList ------------------------------
(***************************************************************************)
(* The scatter-gather lists of a DMA transfer (src/src/aja.c:858-955): the *)
(* pages a user buffer covers, the pieces of memory in them, and the list  *)
(* the card walks, in which adjacent pieces are merged.                    *)
(*                                                                         *)
(* Addresses are in bytes, the counts of the card's list in words of 4.    *)
(* `table' is the page table of the process: the frame of each of its      *)
(* pages.  pci_map_sg maps each piece to itself, as it does without an     *)
(* IOMMU.                                                                  *)
(***************************************************************************)
EXTENDS Integers, Sequences, SequencesExt

CONSTANTS
    PageSize,   \* PAGE_SIZE
    MaxDma,     \* MAX_DMA_SIZE
    MaxList,    \* max_dmalist
    AddrSpace,  \* one more than the largest address
    Merge       \* dma_merge

ASSUME SizesAssumption ==
    /\ PageSize \in Nat \ {0} /\ PageSize % 4 = 0 /\ MaxDma \in Nat /\ MaxList \in Nat /\ AddrSpace \in Nat \ {0}
    /\ Merge \in BOOLEAN

FirstPage(r) == r.data \div PageSize
LastPage(r)  == (r.data + r.size - 1) \div PageSize
Pages(r)     == FirstPage(r) .. LastPage(r)

\* What aja_dma_init and aja_dma_getpages refuse before they touch the buffer.
Refused(r) ==
    \/ r.data = 0
    \/ r.size < 8
    \/ (r.data + r.size) % AddrSpace < r.data
    \/ LastPage(r) - FirstPage(r) + 1 > MaxList

Smaller(a, b) == IF a < b THEN a ELSE b

\* The pieces of the buffer: the first starts anywhere in its page, the last
\* ends anywhere.
Pieces(r, table) ==
    LET off   == r.data % PageSize
        first == Smaller(r.size, PageSize - off)
        left(i) == r.size - first - (i - 2) * PageSize IN
    [i \in 1 .. LastPage(r) - FirstPage(r) + 1 |->
        IF i = 1 THEN [addr |-> table[FirstPage(r)] * PageSize + off, len |-> first]
        ELSE [addr |-> table[FirstPage(r) + i - 1] * PageSize, len |-> Smaller(left(i), PageSize)]]

\* A faulty variant: a word that is begun counts.
WordsUp(s) == (s.len + 3) \div 4

\* The words of a piece; what is left of the last one is not transferred.
Words(s) == s.len \div 4

\* The offset on the card is not advanced over a merged piece.
AddPieceNoAdvance(acc, s) ==
    LET n == Len(acc.list) IN
    IF Merge /\ n > 0 /\ acc.size < MaxDma /\ acc.end = s.addr
    THEN [list |-> [acc.list EXCEPT ![n].count = @ + Words(s)],
          size |-> acc.size + s.len, end |-> acc.end + s.len, cadd |-> acc.cadd]
    ELSE [list |-> Append(acc.list, [hadd |-> s.addr, cadd |-> acc.cadd, count |-> Words(s)]),
          size |-> s.len, end |-> s.addr + s.len, cadd |-> acc.cadd + s.len]

\* A piece that starts where the last entry ends makes that entry longer,
\* unless it has its full size already.
AddPiece(acc, s) ==
    LET n == Len(acc.list)
        next == [end |-> s.addr + s.len, cadd |-> acc.cadd + s.len] IN
    IF Merge /\ n > 0 /\ acc.size < MaxDma /\ acc.end = s.addr
    THEN [list |-> [acc.list EXCEPT ![n].count = @ + Words(s)],
          size |-> acc.size + s.len, end |-> next.end, cadd |-> next.cadd]
    ELSE [list |-> Append(acc.list, [hadd |-> s.addr, cadd |-> acc.cadd, count |-> Words(s)]),
          size |-> s.len, end |-> next.end, cadd |-> next.cadd]

\* The list after each piece.
Built(r, table) ==
    LET piece == Pieces(r, table)
        after[i \in 0 .. Len(piece)] ==
            IF i = 0 THEN [list |-> <<>>, size |-> 0, end |-> 0, cadd |-> r.cadd]
            ELSE AddPiece(after[i - 1], piece[i]) IN
    after

CardList(r, table) == Built(r, table)[Len(Pieces(r, table))].list

\* The words an entry moves: card address and host address of each.
EntryWords(x) == {<<x.cadd + 4 * k, x.hadd + 4 * k>> : k \in 0 .. x.count - 1}

\* Byte b of the buffer in memory.
HostByte(r, table, b) ==
    table[(r.data + b) \div PageSize] * PageSize + ((r.data + b) % PageSize)

\* Reference: word k of the buffer goes to, or comes from, word k of the
\* card's memory from cadd on.
BufferWords(r, table) ==
    {<<r.cadd + 4 * k, HostByte(r, table, 4 * k)>> : k \in 0 .. r.size \div 4 - 1}

\* A word an engine moves is four bytes of the buffer, at the place on the card
\* that is theirs.
InBuffer(w, r, table) ==
    LET n == w[1] - r.cadd IN
    /\ n \in 0 .. r.size - 4
    /\ \A j \in 0 .. 3 : w[2] + j = HostByte(r, table, n + j)
=============================================================================
