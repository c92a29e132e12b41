--------------------------------- MODULE Crypt ---------------------------------
(***************************************************************************)
(* crypt.c of GroupAssignmentGFS01: AES in counter mode, which combines    *)
(* the cell at each position of a file with the part of the keystream at   *)
(* that position.  A cell on the server keeps in pad the position that it  *)
(* was encrypted with, counted from 1.                                     *)
(***************************************************************************)
EXTENDS KernelFs

CONSTANT MaxFiles   \* how many descriptors the process may have

ASSUME CryptAssumption == MaxFiles \in Nat

Garbage == Plain(-1)

\* Neither Crypt_loadKey nor Crypt_loadIV closes the file that it opens; the handlers ignore
\* their failure and go on with what the arrays of the key and of the vector happen to hold.
load(opened) == Min({opened + 2, MaxFiles})
Loaded(opened) == opened + 2 <= MaxFiles

\* What EVP_CIPHER_block_size gives for a cipher in counter mode, which works byte by byte. So
\* there is never a left padding, nor the buffer for it, which is freed before it is copied from.
block_size == 1
ctr_num(offset) == offset \div block_size
left_padding(offset) == offset % block_size

\* Mutant: the blocks before the offset are not skipped.
Position_in_block(offset, j) == left_padding(offset) + j

\* The position in the keystream that the cell j of an access at offset is combined with: the
\* blocks before the offset are skipped one by one.
Position(offset, j) == ctr_num(offset) * block_size + left_padding(offset) + j

\* Without the key, an access gives whatever the arrays of the key and of the vector hold.
Spoilt(cells, loaded) == IF loaded THEN {} ELSE DOMAIN cells

Outcome(cells, spoilt) ==
    {[j \in DOMAIN cells |-> IF j \in lost THEN Garbage ELSE cells[j]] : lost \in SUBSET spoilt}

encrypt(cells, offset, loaded) ==
    Outcome([j \in DOMAIN cells |-> [val |-> cells[j].val, pad |-> Position(offset, j)]],
            Spoilt(cells, loaded))

\* A cell that was encrypted at another position, or not at all, makes no sense.
plain(cell, position) == IF cell.pad = position THEN Plain(cell.val) ELSE Garbage
decrypt(cells, offset, loaded) ==
    Outcome([j \in DOMAIN cells |-> plain(cells[j], Position(offset, j))],
            Spoilt(cells, loaded))
===============================================================================
