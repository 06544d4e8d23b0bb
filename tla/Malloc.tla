------------------------------- MODULE Malloc --------------------------------
(***************************************************************************)
(* The allocator of the run time (NoOSrt/src/malloc.c) and its one user,   *)
(* the program malloctst (apps/malloctst.h).  The kernel hands it one      *)
(* array, again at every start; free() gives nothing back.                 *)
(*                                                                         *)
(* A size is an int for the program and a size_t, unsigned, for malloc().  *)
(***************************************************************************)
EXTENDS Integers

CONSTANTS
  Word,           \* 2^32, the values of a size_t
  noosrt_mem,     \* the address of the array
  MemSize,        \* _NOOSRT_MEM_SIZE
  SizeLimit,      \* __MALLOC__MEM_SIZE, the largest size malloctst accepts
  Sizes           \* what atoi() makes of the argument of malloctst

VARIABLES
  mem_ptr,        \* _NoOSrt_mem_ptr
  free_mem,       \* _NoOSrt_free_mem
  blocks,         \* the blocks handed out since the kernel started
  written         \* the addresses malloctst has written

mallocVars == <<mem_ptr, free_mem, blocks, written>>

ASSUME MallocAssumption ==
  /\ Word \in Nat \ {0} /\ noosrt_mem \in Nat \ {0} /\ MemSize \in Nat
  /\ noosrt_mem + MemSize < Word
  /\ SizeLimit \in Nat /\ SizeLimit < Word \div 2
  /\ Sizes \subseteq -(Word \div 2) .. Word \div 2 - 1

NULL == 0
Pool == noosrt_mem .. noosrt_mem + MemSize - 1
Block(ptr, size) == ptr .. ptr + size - 1

\* The conversion of an int to a size_t.
Unsigned(n) == n % Word

\* noosrt_malloc_init
MallocInit ==
  /\ mem_ptr = noosrt_mem /\ free_mem = MemSize
  /\ blocks = {} /\ written = {}

OneTooMany(size) == Unsigned(size) <= free_mem + 1    \* seeded bug: off by one
Fits(size) == Unsigned(size) <= free_mem

Remaining(size) == free_mem - Unsigned(size)

NotAdvanced(size) == mem_ptr        \* seeded bug: the pointer stays
Advanced(size) == mem_ptr + Unsigned(size)

\* malloc: the pointer it returns.
Malloc(size) == IF Fits(size) THEN mem_ptr ELSE NULL

\* What malloc leaves behind.
Take(size) ==
  IF Fits(size)
  THEN /\ mem_ptr' = Advanced(size)
       /\ free_mem' = Remaining(size)
       /\ blocks' = blocks \cup {[ptr |-> mem_ptr, size |-> Unsigned(size)]}
  ELSE UNCHANGED <<mem_ptr, free_mem, blocks>>

\* malloctst: it refuses what is over its own limit, fills what it gets and frees it.
\* Its loop counts the int, not the size_t.
Malloctst(size) ==
  IF size > SizeLimit
  THEN UNCHANGED mallocVars
  ELSE /\ Take(size)
       /\ written' = IF Malloc(size) = NULL THEN written
                     ELSE written \cup Block(Malloc(size), size)

\* The kernel starts again: the programs that held blocks are gone.
Restart ==
  /\ mem_ptr' = noosrt_mem /\ free_mem' = MemSize
  /\ blocks' = {} /\ written' = {}

MallocNext == Restart \/ \E size \in Sizes : Malloctst(size)
MallocSpec == MallocInit /\ [][MallocNext]_mallocVars

(***************************************************************************)
(* Properties                                                              *)
(***************************************************************************)
\* The pointer and the counter describe one place: what is free reaches from the
\* pointer to the end of the array.
FreeIsTheRest ==
  /\ mem_ptr \in Nat /\ free_mem \in 0 .. MemSize
  /\ mem_ptr + free_mem = noosrt_mem + MemSize

\* Blocks that malloc() has handed out share no byte, whatever sizes were asked for,
\* those over the limit and the negative ones among them.
BlocksDisjoint ==
  \A b, c \in blocks :
    Block(b.ptr, b.size) \cap Block(c.ptr, c.size) # {} => b = c

\* A program that fills the block it got writes only in the array of the kernel, up to
\* its last byte, and only where a block is.
WritesInBlocks ==
  /\ written \subseteq Pool
  /\ \A a \in written : \E b \in blocks : a \in Block(b.ptr, b.size)

=============================================================================
