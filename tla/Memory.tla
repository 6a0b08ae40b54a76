------------------------------ MODULE Memory -----------------------------
(***************************************************************************)
(* API blocks (src/core/Memory.cpp): what a Copy call hands to the game is *)
(* one struct with a hidden header in front of it, from which the strings  *)
(* and arrays that belong to it hang; the Release call frees them all.     *)
(* Addresses are numbers; an allocator returns any aligned base where what *)
(* is asked for overlaps nothing that is allocated.                        *)
(***************************************************************************)
EXTENDS Integers, Sequences, SequencesExt, FiniteSets

CONSTANTS
  MaxAlign,        \* alignof(std::max_align_t)
  HeaderSize,      \* sizeof(BlockHeader)
  NodeSize,        \* sizeof(AttachNode)
  Sizes,           \* bound: sizes that are asked for
  Alignments,      \* bound: alignments that are asked for, 0 or powers of two
  MaxUnits,        \* bound: the heap, in units of MaxAlign
  MaxBlocks,       \* bound: blocks at one time
  MaxAttachments   \* bound: attachments of a block

ASSUME MemoryAssumption ==
  /\ MaxAlign \in Nat \ {0} /\ HeaderSize \in Nat /\ NodeSize \in Nat
  /\ Sizes \subseteq Nat /\ Alignments \subseteq Nat
  /\ \A alignment \in Alignments \ {0} : alignment < MaxAlign => MaxAlign % alignment = 0
  /\ MaxUnits \in Nat /\ MaxBlocks \in Nat /\ MaxAttachments \in Nat

VARIABLES
  heap,     \* the allocations: sizes by base
  blocks    \* the blocks the game holds

memoryVars == <<heap, blocks>>

RoundUpPow2(alignment) == IF alignment < MaxAlign THEN MaxAlign ELSE alignment

\* (address + alignment - 1) & ~(alignment - 1), for a power of two.
AlignUp(address, alignment) ==
  LET past == address + alignment - 1 IN past - (past % alignment)

\* Alloc: the bases an allocator may return for so many bytes.
Alloc(bytes) ==
  {base \in {MaxAlign * k : k \in 1..MaxUnits} :
     \A b \in DOMAIN heap : base + bytes <= b \/ b + heap[b] <= base}

With(f, x, v) == [y \in DOMAIN f \cup {x} |-> IF y = x THEN v ELSE f[y]]

MutPrefix(head, alignment) == head

\* What is reserved in front of the usable bytes.
Prefix(head, alignment) == head + alignment

AllocApiBlock(size, alignment) ==
  LET a == RoundUpPow2(alignment)
      bytes == Prefix(HeaderSize, a) + size IN
  /\ Len(blocks) < MaxBlocks
  /\ \E base \in Alloc(bytes) :
       /\ heap' = With(heap, base, bytes)
       /\ blocks' = Append(blocks,
            [base |-> base, at |-> AlignUp(base + HeaderSize, a), size |-> size,
             align |-> alignment, attached |-> <<>>])

\* AttachBytes, and AttachString and AttachArray through it.
AttachBytes(i, size, alignment) ==
  LET a == RoundUpPow2(alignment)
      bytes == Prefix(NodeSize, a) + size IN
  /\ i \in DOMAIN blocks /\ Len(blocks[i].attached) < MaxAttachments
  /\ \E base \in Alloc(bytes) :
       /\ heap' = With(heap, base, bytes)
       /\ blocks' = [blocks EXCEPT ![i].attached =
            <<[base |-> base, at |-> AlignUp(base + NodeSize, a), size |-> size,
               align |-> alignment]>> \o @]

Bases(block) == {block.base} \cup {block.attached[j].base : j \in DOMAIN block.attached}

\* FreeApiBlock: the chain of attachments, then the block.
FreeApiBlock(i) ==
  /\ i \in DOMAIN blocks
  /\ heap' = [b \in DOMAIN heap \ Bases(blocks[i]) |-> heap[b]]
  /\ blocks' = RemoveAt(blocks, i)

MemoryInit == heap = <<>> /\ blocks = <<>>

\* A piece lies in its allocation, behind its head, and is aligned as asked.
Fits(piece, head) ==
  /\ piece.base \in DOMAIN heap
  /\ piece.base + head <= piece.at
  /\ piece.at + piece.size <= piece.base + heap[piece.base]
  /\ piece.align > 0 => piece.at % piece.align = 0

\* The bytes a Copy call writes, and the hidden header that its Release reads
\* (Memory.cpp:159-212), stay inside what was allocated for them whatever the
\* alignment asked for; and what is allocated is what the game can still
\* release, so that FreeApiBlock leaves nothing behind (Memory.cpp:239-254).
BlocksStayInside ==
  /\ \A i \in DOMAIN blocks :
       /\ Fits(blocks[i], HeaderSize)
       /\ \A j \in DOMAIN blocks[i].attached : Fits(blocks[i].attached[j], NodeSize)
  /\ DOMAIN heap = UNION {Bases(blocks[i]) : i \in DOMAIN blocks}
==========================================================================
