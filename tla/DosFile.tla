------------------------------- MODULE DosFile -------------------------------
(***************************************************************************)
(* What READ and WRITE promise to DOS about one open file: a transfer of   *)
(* any length is one step on the file's contents.  A READ puts the units   *)
(* from the position on in the caller's buffer, a WRITE takes them from    *)
(* there; each moves the position by the count it reports, and nothing     *)
(* else changes.  A WRITE that could not be completed may have written     *)
(* more than it reports, never other units.  A transfer is at another      *)
(* place only when the request that sets the server's offset was lost.     *)
(***************************************************************************)
EXTENDS Integers

CONSTANTS MaxLen,   \* bound: the longest file
          MaxN,     \* bound: the longest transfer
          Units,    \* the contents of a place; 0 where nothing was written
          Width     \* positions are numbers modulo Width (2^32 in DOS)

VARIABLES data,     \* the units at the places 0, 1, ... of the file
          len,      \* its length
          dta,      \* the caller's buffer
          pos,      \* the position DOS keeps in the SFT
          size,     \* the size DOS keeps in the SFT
          astray    \* whether that request was lost in the latest transfer

fileVars == <<data, len, dta, pos, size, astray>>

Places == 0 .. MaxLen - 1
Buffer == 0 .. MaxN - 1

\* Contents d with k units of the buffer b from the place at on.
Overlay(d, b, at, k) == [i \in Places |-> IF i \in at .. at + k - 1 THEN b[i - at] ELSE d[i]]

\* Buffer b with k units of the contents d from the place at on.
Filled(b, d, at, k) == [i \in Buffer |-> IF i < k THEN d[at + i] ELSE b[i]]

Longer(m, n) == IF m < n THEN n ELSE m

FInit ==
    /\ data \in [Places -> Units] /\ len \in 0 .. MaxLen
    /\ \A i \in Places : i >= len => data[i] = 0
    /\ dta \in [Buffer -> Units]
    /\ pos = 0 /\ size \in 0 .. len /\ astray = FALSE

\* The program fills its buffer, or moves to a place in the file: DOS calls
\* the driver for neither.
Fill == dta' \in [Buffer -> Units] /\ UNCHANGED <<data, len, pos, size, astray>>
Seek == pos' \in 0 .. MaxLen /\ UNCHANGED <<data, len, dta, size, astray>>

SeekEnd(offset) == pos' = (size + offset) % Width /\ UNCHANGED <<data, len, dta, size, astray>>

Read(k, from) ==
    /\ astray' \in BOOLEAN /\ (from = pos \/ astray')
    /\ k = 0 \/ from + k <= len
    /\ dta' = Filled(dta, data, from, k)
    /\ pos' = (pos + k) % Width
    /\ UNCHANGED <<data, len, size>>

Write(k, made, from) ==
    /\ astray' \in BOOLEAN /\ (from = pos \/ astray')
    /\ k <= made /\ (made = 0 \/ from + made <= MaxLen)
    /\ data' = Overlay(data, dta, from, made)
    /\ len' = IF made = 0 THEN len ELSE Longer(len, from + made)
    /\ pos' = (pos + k) % Width
    /\ size' = Longer(size, pos')
    /\ UNCHANGED dta

FNext ==
    \/ Fill \/ Seek
    \/ \E offset \in -MaxLen .. MaxLen : SeekEnd(offset)
    \/ \E from \in 0 .. Width - 1, k \in 0 .. MaxN :
          Read(k, from) \/ \E made \in k .. MaxN : Write(k, made, from)

FSpec == FInit /\ [][FNext]_fileVars
=============================================================================
