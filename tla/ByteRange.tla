------------------------------ MODULE ByteRange ------------------------------
(***************************************************************************)
(* The Range arithmetic of _video_bytes (apps/events/views.py): which      *)
(* bytes of a stored video answer a Range header, and with which status.   *)
(***************************************************************************)
EXTENDS Integers

\* A header "bytes={first}-{last}"; either number may be Absent, not both.
Absent == -1
Headers(numbers) ==
    {h \in [first : numbers \cup {Absent}, last : numbers \cup {Absent}] :
        h.first # Absent \/ h.last # Absent}

\* Where the answer would start and end before it is checked and clipped.
RangeStart(h, size) ==
    IF h.first # Absent THEN h.first
    ELSE IF size > h.last THEN size - h.last ELSE 0

RangeEnd(h, size) ==
    IF h.first # Absent /\ h.last # Absent THEN h.last ELSE size - 1

Unsatisfiable(h, size) ==
    \/ RangeStart(h, size) >= size
    \/ RangeStart(h, size) > RangeEnd(h, size)

\* Mutation of ClippedEnd: min(end, size).
ClippedLate(h, size) ==
    IF RangeEnd(h, size) < size THEN RangeEnd(h, size) ELSE size

ClippedEnd(h, size) ==
    IF RangeEnd(h, size) < size - 1 THEN RangeEnd(h, size) ELSE size - 1

\* The positions _file_chunks reads, from start, length bytes.
Served(h, size) ==
    LET length == ClippedEnd(h, size) - RangeStart(h, size) + 1
    IN  {n \in 0 .. (RangeStart(h, size) + length - 1) :
            n >= RangeStart(h, size)}

-----------------------------------------------------------------------------
\* What the header asks for: the positions from first on, up to last if it
\* is there, or the last positions of the file.
AskedFor(h, size, n) ==
    IF h.first # Absent
      THEN n >= h.first /\ (h.last # Absent => n <= h.last)
      ELSE n >= size - h.last

\* The answer is the part of the file the header asks for, and a refusal
\* means that there is none: for a suffix longer than the file, an end
\* beyond it, a start at its size and an empty file.
ServesWhatIsAsked(h, size) ==
    IF Unsatisfiable(h, size)
      THEN \A n \in 0 .. (size - 1) : ~AskedFor(h, size, n)
      ELSE Served(h, size) = {n \in 0 .. (size - 1) : AskedFor(h, size, n)}
=============================================================================
